---- MODULE Spec2Model ----
(***************************************************************************)
(* A model of ShaderMake (src/src/ShaderMake.cpp): the planner (config     *)
(* preprocessing, brace expansion, ProcessConfigLine), the hierarchical    *)
(* update time oracle (GetHierarchicalUpdateTime), the worker pool of the  *)
(* external-process backend (ExeCompile / UpdateProgress) and the blob     *)
(* assembly at the end of main.                                            *)
(*                                                                         *)
(* Text is modelled as sequences of atoms: an atom is a string that holds  *)
(* either one special character (" ", "{", "}", ",", "/", ".", quote, tab) *)
(* or a run of ordinary characters.  Paths of source files are pairs       *)
(* <<directory, file name>>; paths of output files are strings.            *)
(***************************************************************************)
EXTENDS Integers, Sequences, FiniteSets, TLC

VARIABLES
    g_Options,                  \* Options g_Options (immutable after Parse)
    files,                      \* the source tree: path -> [time, lines, canOpen]
    g_HierarchicalUpdateTimes,  \* the memo of GetHierarchicalUpdateTime
    callStack,                  \* the frames of the recursion, innermost first
    ghutPc,                     \* position of the oracle
    ghutFile,                   \* the argument of the pending call
    outTime,                    \* the result of the last finished top-level call
    config,                     \* the lines of the config file
    lastWriteTime,              \* fs::last_write_time of the config file and of the executable
    configTime,                 \* max of the write times of the config file and of the executable
    lineIndex,                  \* the number of config lines read
    blocks,                     \* the stack of the config preprocessor
    pending,                    \* the expanded lines of the current config line still to process
    pcl,                        \* the locals of ProcessConfigLine across the call of the oracle
    g_TaskData,                 \* vector<TaskData> g_TaskData
    g_ShaderBlobs,              \* map<string, vector<BlobEntry>> g_ShaderBlobs
    outFiles,                   \* the output files on disk: path -> last write time
    outDirs,                    \* the output directories on disk
    mainPc,                     \* position of the main thread
    exitCode,                   \* the value main returns
    env,                        \* the environment: hardware_concurrency, the results a
                                \* compiler process may have, whether SIGINT is sent
    now,                        \* the clock of the file system
    sigint,                     \* a SIGINT is still to be delivered
    g_ProcessedTaskCount,
    g_FailedTaskCount,
    g_TaskRetryCount,
    g_Terminate,
    g_OriginalTaskCount,
    wpc,                        \* position of each worker thread
    taskData,                   \* the task each worker holds (the local of ExeCompile)
    result,                     \* the result of pclose of each worker's compiler process
    isSucceeded,                \* locals of ExeCompile
    willRetry,
    blobsLeft,                  \* the groups of g_ShaderBlobs the loop of main has not reached
    run,                        \* history: 1 in the first run of the program, 2 in the second
    firstRun,                   \* history: what the first run planned and how it ended
    supported,                  \* history: expanded lines that passed the platform filter
    requeues,                   \* history: tasks pushed back by UpdateProgress
    transients,                 \* history: transient failures seen with a budget > 0
    m_lineLength,               \* DataOutputContext::m_lineLength of the open text context
    textLine,                   \* the values on the last line of its body, by number of digits
    blobCalls,                  \* the calls of the blob writer that made each blob file
    sourceFile,                 \* the source file an FxcIncluder was made for
    includeDirs,                \* vector<fs::path> FxcIncluder::includeDirs
    openData,                   \* the files whose data Open handed out and Close has not got back
    hresult,                    \* what the last call of Open or Close returned
    callLog,                    \* the calls of Open and Close so far, and what they did
    m_ComPtr,                   \* T* m_ComPtr of each ComPtr
    constructed,                \* the ComPtrs between constructor and destructor
    refCount,                   \* the reference count of each object
    released,                   \* the objects whose count has reached zero
    misused,                    \* AddRef or Release was called on such an object
    rawHeld                     \* the objects whose maker still holds its own reference

inputVars == <<g_Options, files, config, lastWriteTime, configTime, env>>

oracleVars == <<g_HierarchicalUpdateTimes, callStack, ghutPc, ghutFile, outTime>>

planVars == <<lineIndex, blocks, pending, pcl, g_ShaderBlobs>>

diskVars == <<outFiles, outDirs, now>>

counterVars == <<g_ProcessedTaskCount, g_FailedTaskCount, g_TaskRetryCount, g_OriginalTaskCount>>

workerVars == <<wpc, taskData, result, isSucceeded, willRetry>>

historyVars == <<run, firstRun, supported, requeues, transients>>

\* what goes through a DataOutputContext
textVars == <<m_lineLength, textLine, blobCalls>>

\* an FxcIncluder
includerVars == <<sourceFile, includeDirs, openData, hresult, callLog>>

\* the ComPtrs and the objects they point to
comVars == <<m_ComPtr, constructed, refCount, released, misused, rawHeld>>

\* the classes main and the workers of the model leave alone
unitVars == <<includerVars, comVars>>

\* what the planner leaves alone
planFrame == <<counterVars, workerVars, g_Terminate, sigint, blobsLeft,
               run, firstRun, requeues, transients>>

vars == <<inputVars, oracleVars, planVars, diskVars, counterVars, workerVars, historyVars,
          textVars, unitVars, g_TaskData, g_Terminate, sigint, blobsLeft, mainPc, exitCode>>

-----------------------------------------------------------------------------
(* Generic helpers *)

Max(a, b) == IF a >= b THEN a ELSE b

Min(a, b) == IF a <= b THEN a ELSE b

Range(s) == {s[i] : i \in DOMAIN s}

-----------------------------------------------------------------------------
(* GetHierarchicalUpdateTime *)

NoInclude == "-"

\* fs::exists(path / name)
Exists(dir, name) == <<dir, name>> \in DOMAIN files

\* lines 1636-1651: the including file's directory first, then the include
\* directories in order; <<>> when none has the file.
RECURSIVE ResolveInDirs(_, _)
\* A search in which the last include directory that has the file wins
ResolveInDirsMutLast(dirs, name) ==
    IF dirs = <<>> THEN <<>>
    ELSE IF ResolveInDirs(Tail(dirs), name) # <<>> THEN ResolveInDirs(Tail(dirs), name)
    ELSE IF Exists(Head(dirs), name) THEN <<Head(dirs), name>>
    ELSE <<>>

ResolveInDirs(dirs, name) ==
    IF dirs = <<>> THEN <<>>
    ELSE IF Exists(Head(dirs), name) THEN <<Head(dirs), name>>
    ELSE ResolveInDirs(Tail(dirs), name)

ResolveInclude(path, name) ==
    IF Exists(path, name) THEN <<path, name>>
    ELSE ResolveInDirs(g_Options.includeDirs, name)

\* An oracle that knows no relaxed name
IsRelaxedMutNone(name) == FALSE

\* line 1633
IsRelaxed(name) == name \in Range(g_Options.relaxedIncludes)

\* A return that overwrites the caller's time with the dependency's, where
\* line 1666 takes the maximum
GhutReturnMutNoMax(stack, time) ==
    IF stack = <<>>
    THEN /\ ghutPc' = "done"
         /\ outTime' = time
         /\ callStack' = stack
    ELSE /\ ghutPc' = "scan"
         /\ outTime' = outTime
         /\ callStack' = <<[Head(stack) EXCEPT !.time = time,
                                               !.line = @ + 1]>> \o Tail(stack)

\* The value handed back to the caller: the top-level call ends, a nested one
\* continues the caller's loop with line 1666.
GhutReturn(stack, time) ==
    IF stack = <<>>
    THEN /\ ghutPc' = "done"
         /\ outTime' = time
         /\ callStack' = stack
    ELSE /\ ghutPc' = "scan"
         /\ outTime' = outTime
         /\ callStack' = <<[Head(stack) EXCEPT !.time = Max(time, @),
                                               !.line = @ + 1]>> \o Tail(stack)

\* The recursion has no bound of its own: the depth the machine's stack allows.
\* Deeper than the number of files that can exist, a file is on the stack twice.
MaxDepth == 6

\* lines 1602-1623: the memo lookup, the open, the push on callStack
GhutEnter ==
    /\ ghutPc = "enter"
    /\ UNCHANGED <<g_HierarchicalUpdateTimes, ghutFile>>
    /\ IF ghutFile \in DOMAIN g_HierarchicalUpdateTimes
       THEN GhutReturn(callStack, g_HierarchicalUpdateTimes[ghutFile])
       ELSE IF ghutFile \notin DOMAIN files \/ ~files[ghutFile].canOpen
       THEN /\ ghutPc' = "fail"
            /\ UNCHANGED <<callStack, outTime>>
       ELSE IF Len(callStack) >= MaxDepth
       THEN /\ ghutPc' = "overflow"
            /\ UNCHANGED <<callStack, outTime>>
       ELSE /\ ghutPc' = "scan"
            /\ callStack' = <<[file |-> ghutFile, line |-> 1,
                               time |-> files[ghutFile].time]>> \o callStack
            /\ UNCHANGED outTime

\* lines 1625-1667: one line of the file
GhutScanLine ==
    /\ ghutPc = "scan"
    /\ callStack # <<>>
    /\ LET top == Head(callStack)
           lines == files[top.file].lines
       IN  /\ top.line <= Len(lines)
           /\ LET name == lines[top.line]
                  incl == ResolveInclude(top.file[1], name)
              IN  IF name = NoInclude \/ IsRelaxed(name)
                  THEN /\ callStack' = <<[top EXCEPT !.line = @ + 1]>> \o Tail(callStack)
                       /\ UNCHANGED <<ghutPc, ghutFile>>
                  ELSE IF incl = <<>>
                  THEN /\ ghutPc' = "fail"
                       /\ UNCHANGED <<callStack, ghutFile>>
                  ELSE /\ ghutPc' = "enter"
                       /\ ghutFile' = incl
                       /\ UNCHANGED callStack
    /\ UNCHANGED <<g_HierarchicalUpdateTimes, outTime>>

\* lines 1669-1674: end of file
GhutFinish ==
    /\ ghutPc = "scan"
    /\ callStack # <<>>
    /\ LET top == Head(callStack)
       IN  /\ top.line > Len(files[top.file].lines)
           /\ g_HierarchicalUpdateTimes' =
                  [f \in DOMAIN g_HierarchicalUpdateTimes \cup {top.file} |->
                      IF f = top.file THEN top.time ELSE g_HierarchicalUpdateTimes[f]]
           /\ GhutReturn(Tail(callStack), top.time)
    /\ UNCHANGED ghutFile

GetHierarchicalUpdateTime == GhutEnter \/ GhutScanLine \/ GhutFinish

-----------------------------------------------------------------------------
(* Config text: TrimConfigLine, TokenizeConfigLine, ExpandPermutations *)

Quote == "\""

\* line 242
IsSpace(ch) == ch \in {" ", "\t", "\r", "\n"}

\* line 245
HasRepeatingSpace(a, b) == a = b /\ a = " "

RECURSIVE DropLeadingSpace(_)
DropLeadingSpace(s) ==
    IF s # <<>> /\ IsSpace(Head(s)) THEN DropLeadingSpace(Tail(s)) ELSE s

RECURSIVE DropTrailingSpace(_)
DropTrailingSpace(s) ==
    IF s # <<>> /\ IsSpace(s[Len(s)])
    THEN DropTrailingSpace(SubSeq(s, 1, Len(s) - 1))
    ELSE s

\* std::unique with HasRepeatingSpace
RECURSIVE UniqueSpaces(_)
UniqueSpaces(s) ==
    IF Len(s) < 2 THEN s
    ELSE IF HasRepeatingSpace(s[1], s[2]) THEN UniqueSpaces(Tail(s))
    ELSE <<Head(s)>> \o UniqueSpaces(Tail(s))

\* lines 256-270
TrimConfigLine(s) ==
    LET trimmed == DropTrailingSpace(DropLeadingSpace(s))
        spaced == [i \in DOMAIN trimmed |-> IF trimmed[i] = "\t" THEN " " ELSE trimmed[i]]
    IN  UniqueSpaces(spaced)

\* string::find of a pattern from a position on: the first index, 0 for npos
RECURSIVE Find(_, _, _)
Find(s, pat, from) ==
    IF from + Len(pat) - 1 > Len(s) THEN 0
    ELSE IF SubSeq(s, from, from + Len(pat) - 1) = pat THEN from
    ELSE Find(s, pat, from + 1)

\* lines 272-300: split at spaces outside quotes, the quotes dropped
RECURSIVE Tokenize(_, _, _, _)
Tokenize(in, isString, token, tokens) ==
    IF in = <<>>
    THEN IF token # <<>> THEN Append(tokens, token) ELSE tokens
    ELSE IF Head(in) = Quote
    THEN Tokenize(Tail(in), ~isString, token, tokens)
    ELSE IF Head(in) = " " /\ ~isString
    THEN Tokenize(Tail(in), isString, <<>>,
                  IF token # <<>> THEN Append(tokens, token) ELSE tokens)
    ELSE Tokenize(Tail(in), isString, Append(token, Head(in)), tokens)

TokenizeConfigLine(line) == Tokenize(line, FALSE, <<>>, <<>>)

\* The text of a sequence of atoms
RECURSIVE Flat(_)
Flat(s) == IF s = <<>> THEN "" ELSE Head(s) \o Flat(Tail(s))

\* lines 1849-1880.  The result lists, in the order of the recursion, the
\* fully expanded lines handed to ProcessConfigLine; a missing "}" ends the
\* list with an item that is not ok.
MissingBrace == [ok |-> FALSE, line |-> <<>>]

RECURSIVE ExpandPermutations(_)
RECURSIVE ExpandAlternatives(_, _, _, _)
\* A loop that hands over the later alternatives before the current one
ExpandAlternativesMutLaterFirst(line, opening, closing, current) ==
    LET found == Find(line, <<",">>, current)
        comma == IF found = 0 \/ found > closing THEN closing ELSE found
        newConfig == SubSeq(line, 1, opening - 1) \o SubSeq(line, current, comma - 1)
                        \o SubSeq(line, closing + 1, Len(line))
        first == ExpandPermutations(newConfig)
    IN  IF comma >= closing THEN first
        ELSE ExpandAlternatives(line, opening, closing, comma + 1) \o first

\* An expansion that takes a "{" without "}" as text of the line
ExpandPermutationsMutLiteral(line) ==
    LET opening == Find(line, <<"{">>, 1)
        closing == Find(line, <<"}">>, opening)
    IN  IF opening = 0 \/ closing = 0 THEN <<[ok |-> TRUE, line |-> line]>>
        ELSE ExpandAlternatives(line, opening, closing, opening + 1)

ExpandPermutations(line) ==
    LET opening == Find(line, <<"{">>, 1)
        closing == Find(line, <<"}">>, opening)
    IN  IF opening = 0 THEN <<[ok |-> TRUE, line |-> line]>>
        ELSE IF closing = 0 THEN <<MissingBrace>>
        ELSE ExpandAlternatives(line, opening, closing, opening + 1)

ExpandAlternatives(line, opening, closing, current) ==
    LET found == Find(line, <<",">>, current)
        comma == IF found = 0 \/ found > closing THEN closing ELSE found
        newConfig == SubSeq(line, 1, opening - 1) \o SubSeq(line, current, comma - 1)
                        \o SubSeq(line, closing + 1, Len(line))
        first == ExpandPermutations(newConfig)
    IN  IF ~first[Len(first)].ok THEN first
        ELSE IF comma >= closing THEN first
        ELSE first \o ExpandAlternatives(line, opening, closing, comma + 1)


-----------------------------------------------------------------------------
(* ConfigLine::Parse *)

USE_GLOBAL_OPTIMIZATION_LEVEL == 255

PDB_DIR == "PDB"

Digits == <<"0", "1", "2", "3", "4", "5", "6", "7", "8", "9">>

IsDigit(c) == \E d \in DOMAIN Digits : Digits[d] = c

\* the number that decimal digits write
RECURSIVE Decimal(_)
Decimal(digits) ==
    IF digits = <<>> THEN 0
    ELSE 10 * Decimal(SubSeq(digits, 1, Len(digits) - 1))
         + (CHOOSE d \in DOMAIN Digits : Digits[d] = digits[Len(digits)]) - 1

\* strtol of a token of decimal digits (OPT_INTEGER); the tokens here have at
\* most three digits, which a uint32_t holds as they are
ToInteger(token) ==
    IF token = <<>> \/ \E i \in DOMAIN token : ~IsDigit(token[i]) THEN 0
    ELSE Decimal(token)

\* lines 130-140: the defaults of a ConfigLine; "" stands for nullptr
NewConfigLine(source) ==
    [ok |-> TRUE, source |-> source, entryPoint |-> "main", profile |-> "",
     outputDir |-> "", optimizationLevel |-> USE_GLOBAL_OPTIMIZATION_LEVEL,
     defines |-> <<>>]

\* lines 773-791: the options of a config line, each with its value; anything
\* else stays in argv and fails the parse (line 794)
RECURSIVE ParseArgs(_, _)
ParseArgs(args, cl) ==
    IF args = <<>> THEN cl
    ELSE IF Head(args) \notin {<<"-T">>, <<"-E">>, <<"-D">>, <<"-o">>, <<"-O">>}
            \/ Len(args) < 2
    THEN [cl EXCEPT !.ok = FALSE]
    ELSE LET opt == Head(args)[1]
             val == args[2]
             rest == SubSeq(args, 3, Len(args))
         IN  ParseArgs(rest,
                CASE opt = "-T" -> [cl EXCEPT !.profile = Flat(val)]
                  [] opt = "-E" -> [cl EXCEPT !.entryPoint = Flat(val)]
                  [] opt = "-D" -> [cl EXCEPT !.defines = Append(@, val)]
                  [] opt = "-o" -> [cl EXCEPT !.outputDir = Flat(val)]
                  [] opt = "-O" -> [cl EXCEPT !.optimizationLevel = ToInteger(val)])

\* lines 769-807
ConfigLineParse(tokens) ==
    LET cl == ParseArgs(Tail(tokens), NewConfigLine(Head(tokens)))
    IN  IF cl.ok /\ cl.profile = "" THEN [cl EXCEPT !.ok = FALSE] ELSE cl

-----------------------------------------------------------------------------
(* Names of the outputs: lines 1698-1730 *)

\* The components of a path, split at "/"
RECURSIVE SplitPath(_, _, _)
SplitPath(atoms, cur, acc) ==
    IF atoms = <<>> THEN IF cur # <<>> THEN Append(acc, cur) ELSE acc
    ELSE IF Head(atoms) = "/"
    THEN SplitPath(Tail(atoms), <<>>, IF cur # <<>> THEN Append(acc, cur) ELSE acc)
    ELSE SplitPath(Tail(atoms), Append(cur, Head(atoms)), acc)

\* lines 226-240
RECURSIVE RemoveLeadingDotDots(_)
RemoveLeadingDotDots(comps) ==
    IF comps # <<>> /\ Head(comps) = <<"..">>
    THEN RemoveLeadingDotDots(Tail(comps))
    ELSE comps

\* the index of the last "." of a file name, 0 when it has none
RECURSIVE LastDot(_, _)
LastDot(name, i) ==
    IF i = 0 THEN 0 ELSE IF name[i] = "." THEN i ELSE LastDot(name, i - 1)

\* fs::path::replace_extension("") on the file name
Stem(name) ==
    IF LastDot(name, Len(name)) > 1
    THEN SubSeq(name, 1, LastDot(name, Len(name)) - 1)
    ELSE name

\* fs::path::operator/ on strings, "" the empty path
PathJoin(a, b) == IF a = "" THEN b ELSE IF b = "" THEN a ELSE a \o "/" \o b

RECURSIVE JoinAll(_, _)
JoinAll(base, comps) ==
    IF comps = <<>> THEN base ELSE JoinAll(PathJoin(base, Flat(Head(comps))), Tail(comps))

\* lines 1698-1705
RECURSIVE JoinDefines(_)
JoinDefines(defines) ==
    IF defines = <<>> THEN <<>>
    ELSE IF Len(defines) = 1 THEN Head(defines)
    ELSE Head(defines) \o <<" ">> \o JoinDefines(Tail(defines))

\* std::hash<string> is implementation defined: a polynomial hash over the
\* text, at a quarter of the width (16 bits for the 64 of size_t).
CharCode(atom) ==
    CASE atom = " " -> 32
      [] atom = "=" -> 61
      [] atom = "0" -> 48
      [] atom = "1" -> 49
      [] atom = "2" -> 50
      [] atom = "A" -> 65
      [] atom = "B" -> 66
      [] atom = "A=" -> 126
      [] atom = "B=" -> 127
      [] OTHER -> 7

HashWidth == 2 ^ 8

RECURSIVE StdHash(_, _)
StdHash(atoms, h) ==
    IF atoms = <<>> THEN h
    ELSE StdHash(Tail(atoms), (h * 31 + CharCode(Head(atoms))) % (HashWidth * HashWidth))

RECURSIVE Xor(_, _)
Xor(a, b) ==
    IF a = 0 THEN b ELSE IF b = 0 THEN a
    ELSE ((a + b) % 2) + 2 * Xor(a \div 2, b \div 2)

\* lines 217-218: the low half xor the high half
HashToUint(hash) == Xor(hash % HashWidth, hash \div HashWidth)

HexDigits == <<"0", "1", "2", "3", "4", "5", "6", "7", "8", "9", "A", "B", "C", "D", "E", "F">>

\* snprintf "_%08X" (line 1722) of a value of the reduced width
FormatHash(n) == "_000000" \o HexDigits[(n \div 16) + 1] \o HexDigits[(n % 16) + 1]

\* lines 1707-1713: [parent, name] of the compiled shader
ShaderNameOf(cl) ==
    LET comps == RemoveLeadingDotDots(SplitPath(cl.source, <<>>, <<>>))
        parent == IF g_Options.flatten \/ cl.outputDir # ""
                  THEN <<>> ELSE SubSeq(comps, 1, Len(comps) - 1)
        stem == Flat(Stem(comps[Len(comps)]))
    IN  [parent |-> parent,
         name |-> IF cl.entryPoint # "main" THEN stem \o "_" \o cl.entryPoint ELSE stem]

\* lines 1715-1725
PermutationNameOf(cl) ==
    LET shaderName == ShaderNameOf(cl)
    IN  IF cl.defines # <<>>
        THEN [shaderName EXCEPT
                 !.name = @ \o FormatHash(HashToUint(StdHash(JoinDefines(cl.defines), 0)))]
        ELSE shaderName

\* lines 1727-1730
OutputDirOf(cl) == PathJoin(g_Options.outputDir, cl.outputDir)

\* PathToString(outputDir / name)
OutputPath(cl, name) == PathJoin(JoinAll(OutputDirOf(cl), name.parent), name.name)

\* lines 1734-1736
EndPathOf(cl) ==
    LET dir == JoinAll(OutputDirOf(cl), ShaderNameOf(cl).parent)
    IN  IF g_Options.pdb THEN PathJoin(dir, PDB_DIR) ELSE dir

\* the file of a source relative to the config file: line 1811
SourceFileOf(cl) ==
    LET comps == SplitPath(cl.source, <<>>, <<>>)
    IN  <<JoinAll("", SubSeq(comps, 1, Len(comps) - 1)), Flat(comps[Len(comps)])>>


-----------------------------------------------------------------------------
(* ProcessConfigLine *)

\* lines 178-182
g_PlatformExts == [DXBC |-> ".dxbc", DXIL |-> ".dxil", SPIRV |-> ".spirv"]

\* lines 718-721
g_OutputExt ==
    IF g_Options.outputExt # "" THEN g_Options.outputExt
    ELSE g_PlatformExts[g_Options.platform]

\* lines 126-127
IsBlob == g_Options.binaryBlob \/ g_Options.headerBlob

\* lines 1753-1760, 1766-1773, 1783-1790, 1796-1803: one required output file
CheckOutput(st, enabled, file) ==
    IF ~enabled THEN st
    ELSE IF st.force \/ file \notin DOMAIN outFiles
    THEN [force |-> TRUE, outputTime |-> st.outputTime]
    ELSE [force |-> FALSE,
          outputTime |-> IF st.outputTime = 0 THEN outFiles[file]
                         ELSE Min(st.outputTime, outFiles[file])]

\* lines 1743-1805: force and outputTime after the four output forms
Freshness(cl, force) ==
    LET permFile == OutputPath(cl, PermutationNameOf(cl)) \o g_OutputExt
        blobFile == OutputPath(cl, ShaderNameOf(cl)) \o g_OutputExt
        s0 == [force |-> force, outputTime |-> 0]
        s1 == CheckOutput(s0, g_Options.binary, permFile)
        s2 == CheckOutput(s1, g_Options.header, permFile \o ".h")
        s3 == CheckOutput(s2, g_Options.binaryBlob, blobFile)
    IN  CheckOutput(s3, g_Options.headerBlob, blobFile \o ".h")

RECURSIVE FlatAll(_)
FlatAll(tokens) ==
    IF tokens = <<>> THEN <<>> ELSE <<Flat(Head(tokens))>> \o FlatAll(Tail(tokens))

\* fs::create_directories: the directory and the directories above it
RECURSIVE DirsAbove(_, _)
DirsAbove(base, comps) ==
    IF comps = <<>> THEN {base}
    ELSE {base} \cup DirsAbove(PathJoin(base, Head(comps)), Tail(comps))

CreatedDirs(cl) ==
    DirsAbove("", <<g_Options.outputDir>>
                  \o (IF cl.outputDir # "" THEN <<cl.outputDir>> ELSE <<>>)
                  \o FlatAll(ShaderNameOf(cl).parent)
                  \o (IF g_Options.pdb THEN <<PDB_DIR>> ELSE <<>>)) \ {""}

\* lines 1820-1832
TaskOf(cl) ==
    [source |-> Flat(cl.source),
     entryPoint |-> cl.entryPoint,
     profile |-> cl.profile,
     combinedDefines |-> Flat(JoinDefines(cl.defines)),
     outputFileWithoutExt |-> OutputPath(cl, PermutationNameOf(cl)),
     defines |-> FlatAll(cl.defines),
     optimizationLevel |->
         Min(IF cl.optimizationLevel = USE_GLOBAL_OPTIMIZATION_LEVEL
             THEN g_Options.optimizationLevel ELSE cl.optimizationLevel, 3)]

\* lines 1834-1844
BlobsWith(blobs, cl) ==
    LET blobName == OutputPath(cl, ShaderNameOf(cl))
        entry == [permutationFileWithoutExt |-> OutputPath(cl, PermutationNameOf(cl)),
                  combinedDefines |-> Flat(JoinDefines(cl.defines))]
    IN  IF ~IsBlob THEN blobs
        ELSE [b \in DOMAIN blobs \cup {blobName} |->
                 IF b # blobName THEN blobs[b]
                 ELSE IF b \in DOMAIN blobs THEN Append(blobs[b], entry)
                 ELSE <<entry>>]

\* return true: back to ExpandPermutations, and to the loop of main after the
\* last expanded line
PclContinue ==
    /\ pending' = Tail(pending)
    /\ mainPc' = IF Tail(pending) = <<>> THEN "getline" ELSE "expand"
    /\ UNCHANGED exitCode

\* return false, up to "return 1" at line 2081
PclFail ==
    /\ mainPc' = "exit"
    /\ exitCode' = 1
    /\ UNCHANGED pending

\* lines 1820-1846
PclEmit(cl) ==
    /\ g_TaskData' = Append(g_TaskData, TaskOf(cl))
    /\ g_ShaderBlobs' = BlobsWith(g_ShaderBlobs, cl)
    /\ PclContinue

\* A planner that ignores --force, where line 1733 starts from it
InitialForceMutCreateOnly(create) == create

\* lines 1733-1741: force before the output files are looked at
InitialForce(create) == g_Options.force \/ create

\* lines 1677-1813: up to the call of the oracle
ProcessConfigLine ==
    /\ UNCHANGED <<textVars, unitVars>>
    /\ mainPc = "expand"
    /\ pending # <<>>
    /\ UNCHANGED <<inputVars, lineIndex, blocks, outFiles, now,
                   g_HierarchicalUpdateTimes, outTime, planFrame>>
    /\ LET item == Head(pending)
           cl == ConfigLineParse(TokenizeConfigLine(item.line))
       IN  IF ~item.ok \/ ~cl.ok
           THEN /\ PclFail
                /\ UNCHANGED <<pcl, g_TaskData, g_ShaderBlobs, outDirs, supported,
                               callStack, ghutPc, ghutFile>>
           ELSE IF g_Options.platform = "DXBC" /\ cl.profile \in {"lib", "ms", "as"}
           THEN /\ PclContinue
                /\ UNCHANGED <<pcl, g_TaskData, g_ShaderBlobs, outDirs, supported,
                               callStack, ghutPc, ghutFile>>
           ELSE LET create == EndPathOf(cl) # "" /\ EndPathOf(cl) \notin outDirs
                    st == Freshness(cl, InitialForce(create))
                IN  /\ outDirs' = IF create THEN outDirs \cup CreatedDirs(cl) ELSE outDirs
                    /\ supported' = supported + 1
                    /\ IF st.force
                       THEN /\ PclEmit(cl)
                            /\ UNCHANGED <<pcl, callStack, ghutPc, ghutFile>>
                       ELSE /\ pcl' = [cl |-> cl, outputTime |-> st.outputTime]
                            /\ mainPc' = "oracle"
                            /\ ghutPc' = "enter"
                            /\ ghutFile' = SourceFileOf(cl)
                            /\ callStack' = <<>>
                            /\ UNCHANGED <<pending, exitCode, g_TaskData, g_ShaderBlobs>>

\* the steps of the oracle called at line 1812
OracleStep ==
    /\ UNCHANGED <<textVars, unitVars>>
    /\ mainPc = "oracle"
    /\ GetHierarchicalUpdateTime
    /\ UNCHANGED <<inputVars, planVars, diskVars, g_TaskData, mainPc, exitCode,
                   planFrame, supported>>

\* lines 1812-1818 and on: after the oracle has returned
ProcessConfigLineResume ==
    /\ UNCHANGED <<textVars, unitVars>>
    /\ mainPc = "oracle"
    /\ ghutPc \in {"done", "fail", "overflow"}
    /\ ghutPc' = "idle"
    /\ UNCHANGED <<inputVars, lineIndex, blocks, pcl, diskVars, planFrame, supported,
                   g_HierarchicalUpdateTimes, callStack, ghutFile, outTime>>
    /\ IF ghutPc = "overflow"
       THEN /\ mainPc' = "crashed"
            /\ exitCode' = 139
            /\ UNCHANGED <<pending, g_TaskData, g_ShaderBlobs>>
       ELSE IF ghutPc = "fail"
       THEN PclFail /\ UNCHANGED <<g_TaskData, g_ShaderBlobs>>
       ELSE IF pcl.outputTime > Max(outTime, configTime)
       THEN PclContinue /\ UNCHANGED <<g_TaskData, g_ShaderBlobs>>
       ELSE PclEmit(pcl.cl)

-----------------------------------------------------------------------------
(* The loop of main over the config file: lines 2037-2083 *)

RECURSIVE SkipSpaces(_)
SkipSpaces(s) == IF s # <<>> /\ Head(s) = " " THEN SkipSpaces(Tail(s)) ELSE s

\* lines 2052-2056
\* lines 2052-2055: the text after "#ifdef" and the spaces that follow it.  When
\* nothing follows, find_first_not_of gives npos, pos wraps around to one
\* before its value and the text is the last character of "#ifdef".
IfdefName(line) ==
    LET pos == Find(line, <<"#ifdef">>, 1)
        rest == SkipSpaces(SubSeq(line, pos + 1, Len(line)))
    IN  IF rest = <<>> THEN "f" ELSE Flat(rest)

\* line 2056
IfdefState(line) == blocks[Len(blocks)] /\ IfdefName(line) \in Range(g_Options.defines)

Pop(s) == SubSeq(s, 1, Len(s) - 1)

\* A preprocessor whose "#if 1" opens an active block whatever encloses it
BlocksAfterMutIfOneActive(line) ==
    IF Find(line, <<"#ifdef">>, 1) # 0 THEN Append(blocks, IfdefState(line))
    ELSE IF Find(line, <<"#if", " ", "1">>, 1) # 0 THEN Append(blocks, TRUE)
    ELSE IF Find(line, <<"#if", " ", "0">>, 1) # 0 THEN Append(blocks, FALSE)
    ELSE IF Find(line, <<"#endif">>, 1) # 0
    THEN IF Len(blocks) = 1 THEN blocks ELSE Pop(blocks)
    ELSE IF Find(line, <<"#else">>, 1) # 0
    THEN IF Len(blocks) >= 2 /\ blocks[Len(blocks) - 1]
         THEN Append(Pop(blocks), ~blocks[Len(blocks)])
         ELSE blocks
    ELSE blocks

\* A preprocessor whose "#else" inverts the top whatever the parent is
BlocksAfterMutElseAlways(line) ==
    IF Find(line, <<"#ifdef">>, 1) # 0 THEN Append(blocks, IfdefState(line))
    ELSE IF Find(line, <<"#if", " ", "1">>, 1) # 0 THEN Append(blocks, blocks[Len(blocks)])
    ELSE IF Find(line, <<"#if", " ", "0">>, 1) # 0 THEN Append(blocks, FALSE)
    ELSE IF Find(line, <<"#endif">>, 1) # 0
    THEN IF Len(blocks) = 1 THEN blocks ELSE Pop(blocks)
    ELSE IF Find(line, <<"#else">>, 1) # 0
    THEN IF Len(blocks) >= 2
         THEN Append(Pop(blocks), ~blocks[Len(blocks)])
         ELSE blocks
    ELSE blocks

\* lines 2049-2077: the stack after a directive
BlocksAfter(line) ==
    IF Find(line, <<"#ifdef">>, 1) # 0 THEN Append(blocks, IfdefState(line))
    ELSE IF Find(line, <<"#if", " ", "1">>, 1) # 0 THEN Append(blocks, blocks[Len(blocks)])
    ELSE IF Find(line, <<"#if", " ", "0">>, 1) # 0 THEN Append(blocks, FALSE)
    ELSE IF Find(line, <<"#endif">>, 1) # 0
    THEN IF Len(blocks) = 1 THEN blocks ELSE Pop(blocks)
    ELSE IF Find(line, <<"#else">>, 1) # 0
    THEN IF Len(blocks) >= 2 /\ blocks[Len(blocks) - 1]
         THEN Append(Pop(blocks), ~blocks[Len(blocks)])
         ELSE blocks
    ELSE blocks

IsDirective(line) ==
    \E d \in {<<"#ifdef">>, <<"#if", " ", "1">>, <<"#if", " ", "0">>, <<"#endif">>, <<"#else">>} :
        Find(line, d, 1) # 0

\* line 2045
IsSkipped(line) ==
    line = <<>> \/ line[1] = "\n" \/ (Len(line) >= 2 /\ line[1] = "/" /\ line[2] = "/")

\* lines 2040-2083: one line of the config file; at the end of the file, on
\* to line 2087
MainGetLine ==
    /\ UNCHANGED <<textVars, unitVars>>
    /\ mainPc = "getline"
    /\ UNCHANGED <<inputVars, oracleVars, diskVars, pcl, g_TaskData, g_ShaderBlobs, exitCode,
                   planFrame, supported>>
    /\ IF lineIndex >= Len(config)
       THEN /\ mainPc' = "tasks"
            /\ UNCHANGED <<lineIndex, blocks, pending>>
       ELSE LET line == TrimConfigLine(config[lineIndex + 1])
            IN  /\ lineIndex' = lineIndex + 1
                /\ IF IsSkipped(line)
                   THEN UNCHANGED <<blocks, pending, mainPc>>
                   ELSE IF IsDirective(line)
                   THEN /\ blocks' = BlocksAfter(line)
                        /\ UNCHANGED <<pending, mainPc>>
                   ELSE IF blocks[Len(blocks)]
                   THEN /\ pending' = ExpandPermutations(line)
                        /\ mainPc' = "expand"
                        /\ UNCHANGED blocks
                   ELSE UNCHANGED <<blocks, pending, mainPc>>


-----------------------------------------------------------------------------
(* The worker pool: main lines 2086-2118, ExeCompile, UpdateProgress *)

\* The most threads thread::hardware_concurrency() reports
MaxThreads == 2

ThreadIds == 1 .. MaxThreads

\* line 2098
threadsNum == Max(IF g_Options.serial THEN 1 ELSE env.hardware_concurrency, 1)

\* what the planner leaves to the pool
poolFrame == <<inputVars, oracleVars, planVars, supported>>

\* A return value that ignores the terminate flag
ExitStatusMutFailedOnly == IF g_FailedTaskCount > 0 THEN 1 ELSE 0

\* lines 2171-2182: the value main returns at its end
ExitStatus == IF g_Terminate \/ g_FailedTaskCount > 0 THEN 1 ELSE 0

\* lines 2087-2111 (and 2179-2182 when nothing was planned)
MainStartPool ==
    /\ UNCHANGED <<textVars, unitVars>>
    /\ mainPc = "tasks"
    /\ firstRun' = IF run = 1 THEN [firstRun EXCEPT !.planned = TRUE, !.tasks = g_TaskData]
                   ELSE firstRun
    /\ UNCHANGED <<poolFrame, diskVars, g_TaskData, g_Terminate, sigint, blobsLeft,
                   taskData, result, isSucceeded, willRetry, run, requeues, transients>>
    /\ IF g_TaskData # <<>>
       THEN /\ g_OriginalTaskCount' = Len(g_TaskData)
            /\ g_ProcessedTaskCount' = 0
            /\ g_FailedTaskCount' = 0
            /\ g_TaskRetryCount' = g_Options.retryCount
            /\ wpc' = [w \in ThreadIds |-> IF w <= threadsNum THEN "loop" ELSE "idle"]
            /\ mainPc' = "join"
            /\ UNCHANGED exitCode
       ELSE /\ mainPc' = "exit"
            /\ exitCode' = ExitStatus
            /\ UNCHANGED <<counterVars, wpc>>

\* A loop that goes on whatever the flag
LoopTopMutIgnoresFlag(flag) == "lock"

\* line 1329: while (!g_Terminate)
LoopTop(flag) == IF flag THEN "returned" ELSE "lock"

\* line 1329: the poll of the terminate flag
ExeLoop(w) ==
    /\ UNCHANGED <<textVars, unitVars>>
    /\ mainPc = "join"
    /\ wpc[w] = "loop"
    /\ wpc' = [wpc EXCEPT ![w] = LoopTop(g_Terminate)]
    /\ UNCHANGED <<poolFrame, diskVars, counterVars, historyVars, g_TaskData, g_Terminate,
                   sigint, blobsLeft, mainPc, exitCode, taskData, result, isSucceeded, willRetry>>

\* A worker that reads the back of the queue and leaves it there
ExePopMutNoPop(w) ==
    /\ mainPc = "join"
    /\ wpc[w] = "lock"
    /\ UNCHANGED <<poolFrame, diskVars, counterVars, historyVars, textVars, unitVars, g_Terminate,
                   sigint, blobsLeft, mainPc, exitCode, g_TaskData>>
    /\ IF g_TaskData = <<>>
       THEN /\ wpc' = [wpc EXCEPT ![w] = "returned"]
            /\ UNCHANGED <<taskData, result, isSucceeded, willRetry>>
       ELSE /\ taskData' = [taskData EXCEPT ![w] = g_TaskData[Len(g_TaskData)]]
            /\ result' = [result EXCEPT ![w] = "none"]
            /\ isSucceeded' = [isSucceeded EXCEPT ![w] = FALSE]
            /\ willRetry' = [willRetry EXCEPT ![w] = FALSE]
            /\ wpc' = [wpc EXCEPT ![w] = "running"]

\* lines 1331-1340 under g_TaskMutex, then the command line and popen (1528)
ExePop(w) ==
    /\ UNCHANGED <<textVars, unitVars>>
    /\ mainPc = "join"
    /\ wpc[w] = "lock"
    /\ UNCHANGED <<poolFrame, diskVars, counterVars, historyVars, g_Terminate,
                   sigint, blobsLeft, mainPc, exitCode>>
    /\ IF g_TaskData = <<>>
       THEN /\ wpc' = [wpc EXCEPT ![w] = "returned"]
            /\ UNCHANGED <<g_TaskData, taskData, result, isSucceeded, willRetry>>
       ELSE /\ taskData' = [taskData EXCEPT ![w] = g_TaskData[Len(g_TaskData)]]
            /\ result' = [result EXCEPT ![w] = "none"]
            /\ g_TaskData' = Pop(g_TaskData)
            /\ isSucceeded' = [isSucceeded EXCEPT ![w] = FALSE]
            /\ willRetry' = [willRetry EXCEPT ![w] = FALSE]
            /\ \E pipe \in {TRUE} \cup (IF "nopipe" \in env.results THEN {FALSE} ELSE {}) :
                   wpc' = [wpc EXCEPT ![w] = IF pipe THEN "running" ELSE "update"]

\* lines 1371-1376 (Slang) and 1443-1448 (DXC, FXC): the values of the -D
\* arguments of the command line, in their order
CommandDefines(task) == task.defines \o g_Options.defines

\* lines 1140-1150: the values of the -D arguments DxcCompile hands to the
\* compiler library, in their order
DxcDefines(task) == g_Options.defines \o task.defines

\* lines 1356-1357
ConvertBinaryOutputToHeader(task) ==
    g_Options.slang /\ (g_Options.header \/ (g_Options.headerBlob /\ task.combinedDefines = ""))

\* The files the compiler process is told to write: -Fo and -Fh (lines
\* 1422-1430), or -o for Slang (line 1366)
CompilerOutputs(task) ==
    LET outputFile == task.outputFileWithoutExt \o g_OutputExt
    IN  IF g_Options.slang THEN {outputFile}
        ELSE (IF g_Options.binary \/ g_Options.binaryBlob
                 \/ (g_Options.headerBlob /\ task.combinedDefines # "")
              THEN {outputFile} ELSE {})
             \cup
             (IF g_Options.header \/ (g_Options.headerBlob /\ task.combinedDefines = "")
              THEN {outputFile \o ".h"} ELSE {})

\* the disk after files were written at a time
Written(disk, paths, time) ==
    [f \in DOMAIN disk \cup paths |-> IF f \in paths THEN time ELSE disk[f]]

\* fs::remove
Removed(disk, paths) == [f \in DOMAIN disk \ paths |-> disk[f]]

\* A classification that knows ECHILD only
IsTransientMutEchildOnly(r) == r = "echild"

\* lines 1545-1550: the results of pclose that count as transient
IsTransient(r) == r = "echild" \/ (env.posix /\ r = "shell127")

\* lines 1552-1557
WillRetry(r, budget) == r # "ok" /\ budget > 0 /\ IsTransient(r)

\* lines 1534-1557: the compiler process ends
ExeWait(w) ==
    /\ UNCHANGED <<textVars, unitVars>>
    /\ mainPc = "join"
    /\ wpc[w] = "running"
    /\ UNCHANGED <<poolFrame, outDirs, counterVars, g_TaskData, g_Terminate, sigint, blobsLeft,
                   mainPc, exitCode, taskData, run, firstRun, requeues>>
    /\ \E r \in env.results \ {"nopipe"} :
          /\ result' = [result EXCEPT ![w] = r]
          /\ isSucceeded' = [isSucceeded EXCEPT ![w] = (r = "ok")]
          /\ willRetry' = [willRetry EXCEPT ![w] = WillRetry(r, g_TaskRetryCount)]
          /\ transients' = IF WillRetry(r, g_TaskRetryCount) THEN transients + 1 ELSE transients
          /\ IF r = "ok"
             THEN /\ outFiles' = Written(outFiles, CompilerOutputs(taskData[w]), now)
                  /\ now' = now + 1
             ELSE UNCHANGED <<outFiles, now>>
          /\ wpc' = [wpc EXCEPT ![w] =
                        IF r = "ok" /\ ConvertBinaryOutputToHeader(taskData[w])
                        THEN "convert" ELSE "update"]

\* lines 1561-1587: the header of a Slang binary
ExeConvert(w) ==
    /\ UNCHANGED <<textVars, unitVars>>
    /\ mainPc = "join"
    /\ wpc[w] = "convert"
    /\ wpc' = [wpc EXCEPT ![w] = "update"]
    /\ UNCHANGED <<poolFrame, outDirs, counterVars, historyVars, g_TaskData, g_Terminate, sigint,
                   blobsLeft, mainPc, exitCode, taskData, result, willRetry>>
    /\ LET outputFile == taskData[w].outputFileWithoutExt \o g_OutputExt
       IN  IF outputFile \in DOMAIN outFiles
           THEN /\ outFiles' = LET withHeader == Written(outFiles, {outputFile \o ".h"}, now)
                               IN  IF ~g_Options.binary
                                   THEN Removed(withHeader, {outputFile})
                                   ELSE withHeader
                /\ now' = now + 1
                /\ UNCHANGED isSucceeded
           ELSE /\ isSucceeded' = [isSucceeded EXCEPT ![w] = FALSE]
                /\ UNCHANGED <<outFiles, now>>

\* A decrement by two, where line 509 decrements by one
RetryCountAfterMutTwo(count) == count - 2

\* line 509
RetryCountAfter(count) == count - 1

\* A retry that loses the task
RequeuedMutDropped(queue, task) == queue

\* lines 506-507
Requeued(queue, task) == Append(queue, task)

\* A failed task that sets the flag whatever the options
TerminateAfterFailMutAlways(flag) == TRUE

\* lines 520-521
TerminateAfterFail(flag) == flag \/ ~g_Options.continueOnError

\* lines 470-526, up to the fail tag
UpdateProgress(w) ==
    /\ UNCHANGED <<textVars, unitVars>>
    /\ mainPc = "join"
    /\ wpc[w] = "update"
    /\ UNCHANGED <<poolFrame, diskVars, g_FailedTaskCount, g_OriginalTaskCount, sigint, blobsLeft,
                   mainPc, exitCode, taskData, result, isSucceeded, willRetry,
                   run, firstRun, transients>>
    /\ IF isSucceeded[w]
       THEN /\ g_ProcessedTaskCount' = g_ProcessedTaskCount + 1
            /\ wpc' = [wpc EXCEPT ![w] = "loop"]
            /\ UNCHANGED <<g_TaskData, g_TaskRetryCount, g_Terminate, requeues>>
       ELSE IF willRetry[w]
       THEN /\ g_TaskData' = Requeued(g_TaskData, taskData[w])
            /\ g_TaskRetryCount' = RetryCountAfter(g_TaskRetryCount)
            /\ requeues' = requeues + 1
            /\ wpc' = [wpc EXCEPT ![w] = "loop"]
            /\ UNCHANGED <<g_ProcessedTaskCount, g_Terminate>>
       ELSE /\ g_Terminate' = TerminateAfterFail(g_Terminate)
            /\ wpc' = [wpc EXCEPT ![w] = "count"]
            /\ UNCHANGED <<g_TaskData, g_ProcessedTaskCount, g_TaskRetryCount, requeues>>

\* A failure that is taken from the number of planned tasks
UpdateProgressCountMutOriginal(w) ==
    /\ mainPc = "join"
    /\ wpc[w] = "count"
    /\ g_OriginalTaskCount' = g_OriginalTaskCount - 1
    /\ wpc' = [wpc EXCEPT ![w] = "loop"]
    /\ UNCHANGED <<poolFrame, diskVars, g_ProcessedTaskCount, g_TaskRetryCount,
                   g_FailedTaskCount, historyVars, textVars, unitVars, g_TaskData, g_Terminate, sigint,
                   blobsLeft, mainPc, exitCode, taskData, result, isSucceeded, willRetry>>

\* line 523
UpdateProgressCount(w) ==
    /\ UNCHANGED <<textVars, unitVars>>
    /\ mainPc = "join"
    /\ wpc[w] = "count"
    /\ g_FailedTaskCount' = g_FailedTaskCount + 1
    /\ wpc' = [wpc EXCEPT ![w] = "loop"]
    /\ UNCHANGED <<poolFrame, diskVars, g_ProcessedTaskCount, g_TaskRetryCount,
                   g_OriginalTaskCount, historyVars, g_TaskData, g_Terminate, sigint, blobsLeft,
                   mainPc, exitCode, taskData, result, isSucceeded, willRetry>>

\* lines 1955-1962
SignalHandler ==
    /\ UNCHANGED <<textVars, unitVars>>
    /\ sigint
    /\ mainPc \notin {"exit", "crashed"}
    /\ g_Terminate' = TRUE
    /\ sigint' = FALSE
    /\ UNCHANGED <<poolFrame, diskVars, counterVars, workerVars, historyVars, g_TaskData,
                   blobsLeft, mainPc, exitCode>>

\* A join that goes on to the blobs whatever the flag
JoinReturnsMutNever == FALSE

\* lines 2117-2118
JoinReturns == g_Terminate

\* lines 2113-2118
MainJoin ==
    /\ UNCHANGED <<textVars, unitVars>>
    /\ mainPc = "join"
    /\ \A w \in ThreadIds : w <= threadsNum => wpc[w] = "returned"
    /\ UNCHANGED <<poolFrame, diskVars, counterVars, workerVars, historyVars, g_TaskData,
                   g_Terminate, sigint>>
    /\ IF JoinReturns
       THEN /\ mainPc' = "exit"
            /\ exitCode' = 1
            /\ UNCHANGED blobsLeft
       ELSE /\ mainPc' = "blobs"
            /\ blobsLeft' = DOMAIN g_ShaderBlobs
            /\ UNCHANGED exitCode


-----------------------------------------------------------------------------
(* The workers of --useAPI: FxcCompile (lines 910-1023), DxcCompile (1025-1279) *)

\* lines 925-934 (FxcCompile), 1102-1111 (DxcCompile): a task is taken under
\* g_TaskMutex
ApiPop(w) ==
    /\ UNCHANGED <<textVars, unitVars>>
    /\ g_Options.useAPI
    /\ mainPc = "join"
    /\ wpc[w] = "lock"
    /\ UNCHANGED <<poolFrame, diskVars, counterVars, historyVars, g_Terminate,
                   sigint, blobsLeft, mainPc, exitCode, result, willRetry>>
    /\ IF g_TaskData = <<>>
       THEN /\ wpc' = [wpc EXCEPT ![w] = "returned"]
            /\ UNCHANGED <<g_TaskData, taskData, isSucceeded>>
       ELSE /\ taskData' = [taskData EXCEPT ![w] = g_TaskData[Len(g_TaskData)]]
            /\ g_TaskData' = Pop(g_TaskData)
            /\ isSucceeded' = [isSucceeded EXCEPT ![w] = FALSE]
            /\ wpc' = [wpc EXCEPT ![w] = "compile"]

\* lines 953-969 (FxcCompile), 1196-1271 (DxcCompile): the compiler library has
\* returned; a set terminate flag ends the worker before anything is written
ApiCompile(w) ==
    /\ UNCHANGED <<textVars, unitVars>>
    /\ mainPc = "join"
    /\ wpc[w] = "compile"
    /\ UNCHANGED <<poolFrame, diskVars, counterVars, historyVars, g_TaskData, g_Terminate,
                   sigint, blobsLeft, mainPc, exitCode, taskData, result, willRetry>>
    /\ \E r \in env.results \cap {"ok", "error"} :
          /\ isSucceeded' = [isSucceeded EXCEPT ![w] = (r = "ok")]
          /\ wpc' = [wpc EXCEPT ![w] = IF g_Terminate THEN "returned"
                                       ELSE IF r = "ok" THEN "dump" ELSE "update"]

\* A binary file only for --binary and --binaryBlob
WritesBinaryMutNoHeaderBlob(task) == g_Options.binary \/ g_Options.binaryBlob

\* line 448
WritesBinary(task) ==
    g_Options.binary \/ g_Options.binaryBlob
        \/ (g_Options.headerBlob /\ task.combinedDefines # "")

\* line 457
WritesHeader(task) ==
    g_Options.header \/ (g_Options.headerBlob /\ task.combinedDefines = "")

\* lines 444-468: fopen may fail for either file (lines 380-382); when it fails
\* for the binary file the function returns before it comes to the header
DumpShader(w) ==
    /\ UNCHANGED <<textVars, unitVars>>
    /\ mainPc = "join"
    /\ wpc[w] = "dump"
    /\ wpc' = [wpc EXCEPT ![w] = "update"]
    /\ UNCHANGED <<poolFrame, outDirs, counterVars, historyVars, g_TaskData, g_Terminate,
                   sigint, blobsLeft, mainPc, exitCode, taskData, result, isSucceeded, willRetry>>
    /\ \E binaryOpens, headerOpens \in {TRUE} \cup (IF "noopen" \in env.results THEN {FALSE} ELSE {}) :
          LET file == taskData[w].outputFileWithoutExt \o g_OutputExt
              returnsEarly == WritesBinary(taskData[w]) /\ ~binaryOpens
              written == (IF WritesBinary(taskData[w]) /\ binaryOpens THEN {file} ELSE {})
                         \cup
                         (IF WritesHeader(taskData[w]) /\ ~returnsEarly /\ headerOpens
                          THEN {file \o ".h"} ELSE {})
          IN  /\ outFiles' = Written(outFiles, written, now)
              /\ now' = now + 1

-----------------------------------------------------------------------------
(* Blob assembly: lines 1882-1953 and 2120-2168 *)

\* line 1909: the call that writes the head of a blob
WriteFileHeader == <<"WriteFileHeader">>

\* line 1927: the call that writes one permutation, with its defines and the
\* data of a permutation file as it was written at a time
WritePermutation(defines, file, time) == <<"WritePermutation", defines, file, time>>

\* the calls that made a file, recorded
WithCalls(log, file, calls) ==
    [f \in DOMAIN log \cup {file} |-> IF f = file THEN calls ELSE log[f]]

\* lines 1882-1944: the blob file is opened (and so exists from then on), then
\* every permutation file is read; the first that cannot be read ends the loop
CreateBlob(disk, blobName, entries, useTextOutput) ==
    LET outputFile == blobName \o g_OutputExt \o (IF useTextOutput THEN ".h" ELSE "")
        opened == Written(disk, {outputFile}, now)
        file(i) == entries[i].permutationFileWithoutExt \o g_OutputExt
        unread == {i \in DOMAIN entries : file(i) \notin DOMAIN opened}
        read == IF unread = {} THEN Len(entries)
                ELSE (CHOOSE i \in unread : \A j \in unread : i <= j) - 1
    IN  [files |-> opened,
         output |-> outputFile,
         calls |-> <<WriteFileHeader>>
                   \o [i \in 1 .. read |->
                          WritePermutation(entries[i].combinedDefines, file(i), opened[file(i)])],
         success |-> unread = {}]

\* lines 1946-1953
RemoveIntermediateBlobFiles(disk, entries) ==
    Removed(disk, {entries[i].permutationFileWithoutExt \o g_OutputExt : i \in DOMAIN entries})

\* lines 2125-2126
IsSingleWithoutDefines(entries) == Len(entries) = 1 /\ entries[1].combinedDefines = ""

\* A validation that looks at the last entry only
HasInvalidEntryMutLastOnly(entries) == entries[Len(entries)].combinedDefines = ""

\* lines 2131-2142
HasInvalidEntry(entries) == \E i \in DOMAIN entries : entries[i].combinedDefines = ""

\* lines 2121-2168: one group of g_ShaderBlobs.  std::map walks the groups in
\* the order of their names; the model takes them in every order.
MainBlob ==
    /\ UNCHANGED <<m_lineLength, textLine, unitVars>>
    /\ mainPc = "blobs"
    /\ blobsLeft # {}
    /\ UNCHANGED <<poolFrame, outDirs, counterVars, workerVars, g_TaskData, g_Terminate, sigint,
                   run, supported, requeues, transients>>
    /\ \E blobName \in blobsLeft :
          LET entries == g_ShaderBlobs[blobName]
              bin == IF g_Options.binaryBlob
                     THEN CreateBlob(outFiles, blobName, entries, FALSE)
                     ELSE [files |-> outFiles, success |-> TRUE]
              binCalls == IF g_Options.binaryBlob
                          THEN WithCalls(blobCalls, bin.output, bin.calls) ELSE blobCalls
              hdr == IF g_Options.headerBlob
                     THEN CreateBlob(bin.files, blobName, entries, TRUE)
                     ELSE [files |-> bin.files, success |-> TRUE]
              hdrCalls == IF g_Options.headerBlob
                          THEN WithCalls(binCalls, hdr.output, hdr.calls) ELSE binCalls
          IN  /\ blobsLeft' = blobsLeft \ {blobName}
              /\ IF IsSingleWithoutDefines(entries)
                 THEN UNCHANGED <<outFiles, now, mainPc, exitCode, firstRun, blobCalls>>
                 ELSE IF HasInvalidEntry(entries)
                 THEN /\ UNCHANGED <<outFiles, now, blobCalls>>
                      /\ firstRun' = IF run = 1 THEN [firstRun EXCEPT !.blobFailed = TRUE]
                                     ELSE firstRun
                      /\ IF g_Options.continueOnError
                         THEN UNCHANGED <<mainPc, exitCode>>
                         ELSE mainPc' = "exit" /\ exitCode' = 1
                 ELSE /\ now' = now + 1
                      /\ firstRun' = IF run = 1 /\ ~(bin.success /\ hdr.success)
                                     THEN [firstRun EXCEPT !.blobFailed = TRUE]
                                     ELSE firstRun
                      /\ IF ~bin.success /\ ~g_Options.continueOnError
                         THEN /\ outFiles' = bin.files
                              /\ blobCalls' = binCalls
                              /\ mainPc' = "exit"
                              /\ exitCode' = 1
                         ELSE IF ~hdr.success /\ ~g_Options.continueOnError
                         THEN /\ outFiles' = hdr.files
                              /\ blobCalls' = hdrCalls
                              /\ mainPc' = "exit"
                              /\ exitCode' = 1
                         ELSE /\ outFiles' = IF ~g_Options.binary
                                             THEN RemoveIntermediateBlobFiles(hdr.files, entries)
                                             ELSE hdr.files
                              /\ blobCalls' = hdrCalls
                              /\ UNCHANGED <<mainPc, exitCode>>

\* lines 2170-2182
MainReport ==
    /\ UNCHANGED <<textVars, unitVars>>
    /\ mainPc = "blobs"
    /\ blobsLeft = {}
    /\ mainPc' = "exit"
    /\ exitCode' = ExitStatus
    /\ UNCHANGED <<poolFrame, diskVars, counterVars, workerVars, historyVars, g_TaskData,
                   g_Terminate, sigint, blobsLeft>>

-----------------------------------------------------------------------------
(* The program is started a second time on the disk the first run left *)

NoTask == [source |-> "", entryPoint |-> "", profile |-> "", combinedDefines |-> "",
           outputFileWithoutExt |-> "", defines |-> <<>>, optimizationLevel |-> 3]

NoPcl == [cl |-> NewConfigLine(<<>>), outputTime |-> 0]

\* the globals at the start of main: lines 159-170 and 2037-2038
StartOfMain ==
    /\ g_HierarchicalUpdateTimes = <<>>
    /\ callStack = <<>>
    /\ ghutPc = "idle"
    /\ ghutFile = <<>>
    /\ outTime = 0
    /\ lineIndex = 0
    /\ blocks = <<TRUE>>
    /\ pending = <<>>
    /\ pcl = NoPcl
    /\ g_TaskData = <<>>
    /\ g_ShaderBlobs = <<>>
    /\ g_ProcessedTaskCount = 0
    /\ g_FailedTaskCount = 0
    /\ g_TaskRetryCount = 0
    /\ g_OriginalTaskCount = 0
    /\ g_Terminate = FALSE
    /\ wpc = [w \in ThreadIds |-> "idle"]
    /\ taskData = [w \in ThreadIds |-> NoTask]
    /\ result = [w \in ThreadIds |-> "none"]
    /\ isSucceeded = [w \in ThreadIds |-> FALSE]
    /\ willRetry = [w \in ThreadIds |-> FALSE]
    /\ blobsLeft = {}
    /\ mainPc = "getline"
    /\ exitCode = -1

SecondRun ==
    /\ UNCHANGED <<textVars, unitVars>>
    /\ run = 1
    /\ env.rerun
    /\ mainPc \in {"exit", "crashed"}
    /\ run' = 2
    /\ firstRun' = [firstRun EXCEPT !.exitCode = exitCode, !.failed = g_FailedTaskCount]
    /\ g_HierarchicalUpdateTimes' = <<>>
    /\ callStack' = <<>>
    /\ ghutPc' = "idle"
    /\ ghutFile' = <<>>
    /\ outTime' = 0
    /\ lineIndex' = 0
    /\ blocks' = <<TRUE>>
    /\ pending' = <<>>
    /\ pcl' = NoPcl
    /\ g_TaskData' = <<>>
    /\ g_ShaderBlobs' = <<>>
    /\ g_ProcessedTaskCount' = 0
    /\ g_FailedTaskCount' = 0
    /\ g_TaskRetryCount' = 0
    /\ g_OriginalTaskCount' = 0
    /\ g_Terminate' = FALSE
    /\ wpc' = [w \in ThreadIds |-> "idle"]
    /\ taskData' = [w \in ThreadIds |-> NoTask]
    /\ result' = [w \in ThreadIds |-> "none"]
    /\ isSucceeded' = [w \in ThreadIds |-> FALSE]
    /\ willRetry' = [w \in ThreadIds |-> FALSE]
    /\ blobsLeft' = {}
    /\ mainPc' = "getline"
    /\ exitCode' = -1
    /\ supported' = 0
    /\ UNCHANGED <<inputVars, diskVars, sigint, requeues, transients>>


-----------------------------------------------------------------------------
(* Inputs: command lines, config files, source trees, disks *)

\* lines 80-123: the defaults of Options, with an output directory
DefaultOptions ==
    [includeDirs |-> <<"inc">>, relaxedIncludes |-> <<>>, defines |-> <<>>,
     outputDir |-> "out", outputExt |-> "", platform |-> "DXIL", optimizationLevel |-> 3,
     serial |-> FALSE, flatten |-> FALSE, force |-> FALSE,
     binary |-> FALSE, header |-> FALSE, binaryBlob |-> FALSE, headerBlob |-> FALSE,
     continueOnError |-> FALSE, pdb |-> FALSE, slang |-> FALSE, retryCount |-> 0,
     useAPI |-> FALSE]

\* line 668: one of the four output forms must be set
OutputForms ==
    {f \in [binary : BOOLEAN, header : BOOLEAN, binaryBlob : BOOLEAN, headerBlob : BOOLEAN] :
        f.binary \/ f.header \/ f.binaryBlob \/ f.headerBlob}

WithForms(opts, f) ==
    [opts EXCEPT !.binary = f.binary, !.header = f.header,
                 !.binaryBlob = f.binaryBlob, !.headerBlob = f.headerBlob]

\* Config lines
LineAx == <<"a", "/", "x", ".", "hlsl", " ", "-T", " ", "ps">>

LineBx == <<"b", "/", "x", ".", "hlsl", " ", "-T", " ", "ps">>

LinePerm == <<"a", "/", "x", ".", "hlsl", " ", "-T", " ", "cs", " ", "-D", " ", "A=", "{", "0", ",", "1", "}">>

LineSame == <<"a", "/", "x", ".", "hlsl", " ", "-T", " ", "cs", " ", "-D", " ", "A=", "{", "1", ",", "1", "}">>

LineLib == <<"\t", "b", "/", "x", ".", "hlsl", " ", " ", "-T", " ", "lib", " ">>

LineOpen == <<"b", "/", "x", ".", "hlsl", " ", "-T", " ", "ps", " ", "-D", " ", "{", "A", ",", "B", "}", "{", "0">>

LineStray == <<"b", "/", "x", ".", "hlsl", " ", "-T", " ", "ps", " ", "stray">>

ConfigTwo == <<LineAx, LineBx>>

ConfigTwoReversed == <<LineBx, LineAx>>

ConfigPerm == <<LinePerm>>

ConfigRepeatedLine == <<LineAx, LineAx>>

ConfigRepeatedBrace == <<LineSame>>

ConfigMixed == <<LineAx, LinePerm>>

ConfigLib == <<<<"/", "/", "comment">>, LineLib, LineAx>>

ConfigIfdef == <<<<"#ifdef", " ", "X">>, LineAx, <<"#else">>, LineBx, <<"#endif">>>>

ConfigOpenBrace == <<LineAx, LineOpen>>

\* a "{" that is the first of its line and has no "}"
LineOpenFirst == <<"b", "/", "x", ".", "hlsl", " ", "-T", " ", "ps", " ", "-D", " ", "A=", "{", "0">>

ConfigOpenFirst == <<LineAx, LineOpenFirst>>

ConfigStray == <<LineStray, LineAx>>

\* an "#endif" and an "#else" outside any block
ConfigUnexpected == <<<<"#endif">>, LineAx, <<"#else">>, LineBx>>

\* Source trees: the two sources, and the headers a/c.hlsli, inc/c.hlsli and
\* inc/d.hlsli.  One file is newer (time 2) than the others (time 1).
SrcA == <<"a", "x.hlsl">>

SrcB == <<"b", "x.hlsl">>

HdrAC == <<"a", "c.hlsli">>

HdrIC == <<"inc", "c.hlsli">>

HdrID == <<"inc", "d.hlsli">>

Headers == {HdrAC, HdrIC, HdrID}

SourceFile(time, lines) == [time |-> time, lines |-> lines, canOpen |-> TRUE]

\* a tree whose sources include nothing
PlainTree(timeA, timeB) ==
    [f \in {SrcA, SrcB} |-> SourceFile(IF f = SrcA THEN timeA ELSE timeB, <<>>)]

TreeOf(present, lines, newest, closed) ==
    [f \in {SrcA, SrcB} \cup present |->
        [time |-> IF f = newest THEN 2 ELSE 1,
         lines |-> lines[f],
         canOpen |-> f # closed]]

\* the lines of each file: an include of c.hlsli, of d.hlsli, or another line
TreeLines ==
    {l \in [{SrcA, SrcB} \cup Headers -> {<<>>, <<"c.hlsli">>, <<"d.hlsli">>,
                                          <<"c.hlsli", "d.hlsli">>, <<NoInclude, "c.hlsli">>}] :
        /\ l[SrcA] \in {<<"c.hlsli">>, <<"c.hlsli", "d.hlsli">>, <<NoInclude, "c.hlsli">>}
        /\ l[SrcB] \in {<<"d.hlsli">>}
        /\ l[HdrAC] \in {<<>>, <<"d.hlsli">>}
        /\ l[HdrIC] \in {<<>>, <<"d.hlsli">>, <<"c.hlsli">>}
        /\ l[HdrID] \in {<<>>, <<"c.hlsli">>}}

Trees ==
    {TreeOf(present, lines, newest, closed) :
        present \in SUBSET Headers, lines \in TreeLines,
        newest \in {SrcA} \cup Headers, closed \in {<<>>, HdrID}}

\* the expanded lines of a config file that parse
ItemsOfLine(line) ==
    LET items == ExpandPermutations(TrimConfigLine(line))
    IN  SelectSeq([i \in DOMAIN items |->
                      IF items[i].ok THEN ConfigLineParse(TokenizeConfigLine(items[i].line))
                      ELSE [ok |-> FALSE]],
                  LAMBDA cl : cl.ok)

RECURSIVE ItemsOf(_)
ItemsOf(cfg) ==
    IF cfg = <<>> THEN <<>>
    ELSE IF IsDirective(Head(cfg)) \/ IsSkipped(TrimConfigLine(Head(cfg)))
    THEN ItemsOf(Tail(cfg))
    ELSE ItemsOfLine(Head(cfg)) \o ItemsOf(Tail(cfg))

\* the output files of the permutation of an expanded line
PermutationOutputs(cl) ==
    {OutputPath(cl, PermutationNameOf(cl)) \o g_OutputExt,
     OutputPath(cl, PermutationNameOf(cl)) \o g_OutputExt \o ".h"}

\* the output files an expanded line can have
OutputsOfItem(cl) ==
    PermutationOutputs(cl) \cup {OutputPath(cl, ShaderNameOf(cl)) \o g_OutputExt,
                                OutputPath(cl, ShaderNameOf(cl)) \o g_OutputExt \o ".h"}

OutputsOf(items) == UNION {OutputsOfItem(items[i]) : i \in DOMAIN items}

DiskAt(paths, time) == [f \in paths |-> time]

\* no output yet, every output, or every output but the permutation files of
\* the last line
Disks(cfg, time) ==
    LET items == ItemsOf(cfg)
    IN  {DiskAt({}, time), DiskAt(OutputsOf(items), time)}
        \cup (IF items = <<>> THEN {}
              ELSE {DiskAt(OutputsOf(items) \ PermutationOutputs(items[Len(items)]), time)})

OutputDirs == {"out", "out/a", "out/b"}

NoFirstRun == [planned |-> FALSE, tasks |-> <<>>, blobFailed |-> FALSE, exitCode |-> -1, failed |-> 0]

Environment(threads, results, posix, rerun) ==
    [hardware_concurrency |-> threads, results |-> results, posix |-> posix, rerun |-> rerun]

\* line 441, and a body without a value
NoValues == [digits \in 1 .. 3 |-> 0]

\* no FxcIncluder has been made
NoIncluder ==
    /\ sourceFile = <<>>
    /\ includeDirs = <<>>
    /\ openData = <<>>
    /\ hresult = "none"
    /\ callLog = <<>>

Objects == {"obj1", "obj2"}
Instances == {"p", "q", "r"}
nullptr == "nullptr"

\* no ComPtr has been made
NoComPtr ==
    /\ m_ComPtr = [p \in Instances |-> nullptr]
    /\ constructed = {}
    /\ refCount = [o \in Objects |-> 0]
    /\ released = {}
    /\ misused = FALSE
    /\ rawHeld = {}

\* A config time that leaves out the executable
ConfigTimeOfMutNoSelf(times) == times.configFile

\* lines 2029-2030
ConfigTimeOf(times) == Max(times.configFile, times.self)

\* the state in which main starts, but for the disk
InitAt(opts, tree, cfg, times, e, signal, clock) ==
    /\ g_Options = opts
    /\ files = tree
    /\ config = cfg
    /\ lastWriteTime = times
    /\ configTime = ConfigTimeOf(times)
    /\ env = e
    /\ now = clock
    /\ sigint = signal
    /\ StartOfMain
    /\ run = 1
    /\ firstRun = NoFirstRun
    /\ supported = 0
    /\ requeues = 0
    /\ transients = 0
    /\ m_lineLength = 129
    /\ textLine = NoValues
    /\ blobCalls = <<>>
    /\ NoIncluder
    /\ NoComPtr

\* the same with an executable as old as the oldest file
InitWith(opts, tree, cfg, cfgTime, e, signal, clock) ==
    InitAt(opts, tree, cfg, [configFile |-> cfgTime, self |-> 1], e, signal, clock)

-----------------------------------------------------------------------------
(* The oracle under the planner: include trees of every shape, outputs present *)

InitOracle ==
    /\ \E tree \in Trees, relaxed \in {<<>>, <<"d.hlsli">>},
          cfg \in {ConfigTwo, ConfigTwoReversed, ConfigRepeatedLine} :
          InitWith([DefaultOptions EXCEPT !.binary = TRUE, !.relaxedIncludes = relaxed],
                   tree, cfg, 1, Environment(1, {"ok"}, TRUE, FALSE), FALSE, 3)
    /\ outFiles = DiskAt(OutputsOf(ItemsOf(config)), 2)
    /\ outDirs = OutputDirs

NextPlan ==
    \/ MainGetLine
    \/ ProcessConfigLine
    \/ OracleStep
    \/ ProcessConfigLineResume

SpecOracle == InitOracle /\ [][NextPlan]_vars

-----------------------------------------------------------------------------
(* The planner: config files, output forms, disks *)

PlanCase(cfg, platform, defines) == [cfg |-> cfg, platform |-> platform, defines |-> defines]

PlanCases ==
    {PlanCase(ConfigTwo, "DXIL", <<>>), PlanCase(ConfigPerm, "DXIL", <<>>),
     PlanCase(ConfigRepeatedLine, "DXIL", <<>>), PlanCase(ConfigRepeatedBrace, "DXIL", <<>>),
     PlanCase(ConfigMixed, "DXIL", <<>>), PlanCase(ConfigLib, "DXIL", <<>>),
     PlanCase(ConfigLib, "DXBC", <<>>), PlanCase(ConfigIfdef, "SPIRV", <<>>),
     PlanCase(ConfigIfdef, "DXIL", <<"X">>), PlanCase(ConfigOpenBrace, "DXIL", <<>>),
     PlanCase(ConfigStray, "DXIL", <<>>)}

InitPlan ==
    /\ \E c \in PlanCases, f \in OutputForms, force \in BOOLEAN, flatten \in BOOLEAN,
          timeA \in {1, 4} :
          InitWith([WithForms(DefaultOptions, f) EXCEPT
                       !.platform = c.platform, !.defines = c.defines,
                       !.force = force, !.flatten = flatten],
                   PlainTree(timeA, 1), c.cfg, 1, Environment(1, {"ok"}, TRUE, FALSE), FALSE, 5)
    /\ outFiles \in Disks(config, 3)
    /\ outDirs \in {{}, OutputDirs}

SpecPlan == InitPlan /\ [][NextPlan]_vars

-----------------------------------------------------------------------------
(* The freshness check: outputs, sources, config file and executable of
   different ages *)

\* the four output files of an expanded line, by output form
OutputByForm(cl) ==
    [binary |-> OutputPath(cl, PermutationNameOf(cl)) \o g_OutputExt,
     header |-> OutputPath(cl, PermutationNameOf(cl)) \o g_OutputExt \o ".h",
     binaryBlob |-> OutputPath(cl, ShaderNameOf(cl)) \o g_OutputExt,
     headerBlob |-> OutputPath(cl, ShaderNameOf(cl)) \o g_OutputExt \o ".h"]

\* the output files of the expanded lines, the age of each by its form
RECURSIVE AgesByForm(_, _)
AgesByForm(items, times) ==
    IF items = <<>> THEN <<>>
    ELSE LET out == OutputByForm(Head(items))
         IN  (out.binary :> times.binary) @@ (out.header :> times.header)
                @@ (out.binaryBlob :> times.binaryBlob) @@ (out.headerBlob :> times.headerBlob)
                @@ AgesByForm(Tail(items), times)

\* the disks of Disks, the age of an output file by its form
DisksByForm(items, times) ==
    LET ages == AgesByForm(items, times)
        last == PermutationOutputs(items[Len(items)])
    IN  {<<>>, ages, [f \in (DOMAIN ages) \ last |-> ages[f]]}

\* --force and the ages of the source, the config file and the executable:
\* nothing newer than the oldest output, or exactly one of them
FreshCase(force, sourceTime, cfgTime, selfTime) ==
    [force |-> force, source |-> sourceTime, configFile |-> cfgTime, self |-> selfTime]

FreshCases ==
    {FreshCase(FALSE, 1, 1, 1), FreshCase(FALSE, 3, 1, 1), FreshCase(FALSE, 1, 3, 1),
     FreshCase(FALSE, 1, 1, 4), FreshCase(TRUE, 1, 1, 1)}

InitFresh ==
    /\ \E cfg \in {ConfigTwo, ConfigPerm}, f \in OutputForms, c \in FreshCases :
          InitAt([WithForms(DefaultOptions, f) EXCEPT !.force = c.force],
                 PlainTree(c.source, 1), cfg, [configFile |-> c.configFile, self |-> c.self],
                 Environment(1, {"ok"}, TRUE, FALSE), FALSE, 5)
    /\ LET items == ItemsOf(config)
       IN  \E binaryTime \in {2, 4}, headerTime \in {2, 4} :
              outFiles \in DisksByForm(items, [binary |-> binaryTime, header |-> headerTime,
                                               binaryBlob |-> headerTime,
                                               headerBlob |-> binaryTime])
    /\ outDirs \in IF outFiles = <<>> THEN {{}, OutputDirs} ELSE {OutputDirs}

SpecFresh == InitFresh /\ [][NextPlan]_vars

-----------------------------------------------------------------------------
(* The worker pool: nothing is built yet, every line is planned *)

\* The largest --retryCount of the runs
MaxRetry == 2

AllResults == {"ok", "echild", "shell127", "error", "nopipe"}

\* one worker: --serial, or a machine that reports no hardware thread
InitSerial ==
    /\ \E cfg \in {ConfigTwo, ConfigRepeatedLine}, serial \in BOOLEAN,
          continueOnError \in BOOLEAN, retryCount \in 0 .. MaxRetry,
          posix \in BOOLEAN, signal \in BOOLEAN :
          InitWith([DefaultOptions EXCEPT !.binary = TRUE, !.serial = serial,
                                          !.continueOnError = continueOnError,
                                          !.retryCount = retryCount],
                   PlainTree(1, 1), cfg, 1,
                   Environment(IF serial THEN MaxThreads ELSE 0, AllResults, posix, FALSE),
                   signal, 3)
    /\ outFiles = DiskAt({}, 0)
    /\ outDirs = {}

\* as many workers as the machine has hardware threads
InitConcurrent ==
    /\ \E cfg \in {ConfigTwo, ConfigRepeatedLine}, continueOnError \in BOOLEAN,
          retryCount \in {0, MaxRetry - 1}, signal \in BOOLEAN :
          InitWith([DefaultOptions EXCEPT !.binary = TRUE,
                                          !.continueOnError = continueOnError,
                                          !.retryCount = retryCount],
                   PlainTree(1, 1), cfg, 1,
                   Environment(MaxThreads, {"ok", "echild", "error"}, TRUE, FALSE),
                   signal, 3)
    /\ outFiles = DiskAt({}, 0)
    /\ outDirs = {}

InitPool == InitSerial \/ InitConcurrent

NextPool ==
    \/ MainGetLine
    \/ ProcessConfigLine
    \/ MainStartPool
    \/ \E w \in ThreadIds : ExeLoop(w)
    \/ \E w \in ThreadIds : ExePop(w)
    \/ \E w \in ThreadIds : ExeWait(w)
    \/ \E w \in ThreadIds : UpdateProgress(w)
    \/ \E w \in ThreadIds : UpdateProgressCount(w)
    \/ SignalHandler
    \/ MainJoin
    \/ MainReport

SpecPool == InitPool /\ [][NextPool]_vars

-----------------------------------------------------------------------------
(* Cancellation: the pool under a scheduler that lets every thread run and
   with compiler processes that end *)

InitCancel ==
    /\ \E cfg \in {ConfigTwo, ConfigMixed}, serial \in BOOLEAN, continueOnError \in BOOLEAN,
          retryCount \in {0, 1}, signal \in BOOLEAN :
          InitWith([DefaultOptions EXCEPT !.binary = TRUE, !.serial = serial,
                                          !.continueOnError = continueOnError,
                                          !.retryCount = retryCount],
                   PlainTree(1, 1), cfg, 1, Environment(2, {"ok", "echild", "error"}, TRUE, FALSE),
                   signal, 3)
    /\ outFiles = DiskAt({}, 0)
    /\ outDirs = {}

\* every worker thread gets to run, and every compiler process ends
Scheduling ==
    /\ \A w \in ThreadIds :
          /\ WF_vars(ExeLoop(w) \/ ExePop(w) \/ UpdateProgress(w) \/ UpdateProgressCount(w))
          /\ WF_vars(ExeWait(w))

SpecCancel == InitCancel /\ [][NextPool]_vars /\ Scheduling

-----------------------------------------------------------------------------
(* The whole program, run twice on the same tree with the same options *)

\* a.hlsl includes c.hlsli, which includes d.hlsli, which includes c.hlsli again
GuardedTree ==
    [f \in {SrcA, SrcB, HdrIC, HdrID} |->
        SourceFile(1, CASE f = SrcA -> <<"c.hlsli">>
                        [] f = SrcB -> <<>>
                        [] f = HdrIC -> <<"d.hlsli">>
                        [] f = HdrID -> <<"c.hlsli">>)]

\* a.hlsl includes c.hlsli, which includes d.hlsli
HeaderTree ==
    [f \in {SrcA, SrcB, HdrIC, HdrID} |->
        SourceFile(1, CASE f = SrcA -> <<"c.hlsli">>
                        [] f = SrcB -> <<>>
                        [] f = HdrIC -> <<"d.hlsli">>
                        [] f = HdrID -> <<>>)]

\* runs in which every compiler process succeeds
InitClean ==
    /\ \E cfg \in {ConfigTwo, ConfigPerm, ConfigMixed, ConfigRepeatedLine},
          f \in OutputForms, slang \in BOOLEAN, force \in BOOLEAN,
          tree \in {PlainTree(1, 1), HeaderTree, GuardedTree} :
          InitWith([WithForms(DefaultOptions, f) EXCEPT
                       !.slang = slang, !.force = force, !.serial = TRUE],
                   tree, cfg, 1, Environment(1, {"ok"}, TRUE, TRUE), FALSE, 3)
    /\ outFiles = DiskAt({}, 0)
    /\ outDirs = {}

\* runs in which a compiler process may fail and a SIGINT may arrive
InitTroubled ==
    /\ \E cfg \in {ConfigTwo, ConfigPerm, ConfigMixed}, binary \in BOOLEAN,
          continueOnError \in BOOLEAN, signal \in BOOLEAN :
          InitWith([DefaultOptions EXCEPT !.binary = binary, !.binaryBlob = ~binary,
                                          !.serial = TRUE,
                                          !.continueOnError = continueOnError],
                   PlainTree(1, 1), cfg, 1, Environment(1, {"ok", "error"}, TRUE, TRUE),
                   signal, 3)
    /\ outFiles = DiskAt({}, 0)
    /\ outDirs = {}

\* a.hlsl includes d.hlsli, which is in no directory
MissingTree ==
    [f \in {SrcA, SrcB} |-> SourceFile(1, IF f = SrcA THEN <<"d.hlsli">> ELSE <<>>)]

\* runs whose planning prints an error: a line with an unknown element, a
\* missing "}", a directive outside any block, an include that is not found
\* below outputs that exist
InitBroken ==
    /\ \E cfg \in {ConfigOpenBrace, ConfigOpenFirst, ConfigStray, ConfigUnexpected,
                     ConfigTwoReversed},
          continueOnError \in BOOLEAN, built \in BOOLEAN :
          InitWith([DefaultOptions EXCEPT !.binary = TRUE, !.serial = TRUE,
                                          !.continueOnError = continueOnError],
                   IF built THEN MissingTree ELSE PlainTree(1, 1), cfg, 1,
                   Environment(1, {"ok"}, TRUE, TRUE), FALSE, 3)
    /\ outFiles = IF files = MissingTree THEN DiskAt(OutputsOf(ItemsOf(config)), 2)
                  ELSE DiskAt({}, 0)
    /\ outDirs = IF files = MissingTree THEN OutputDirs ELSE {}

\* runs with two include directories over outputs that exist: both sources
\* include c.hlsli, which may be next to a/x.hlsl, in inc, in both or nowhere,
\* and d.hlsli, which may be missing or closed to the reader
IncludeLines ==
    [f \in {SrcA, SrcB} \cup Headers |->
        IF f = SrcA THEN <<"c.hlsli", "d.hlsli">>
        ELSE IF f = SrcB THEN <<"c.hlsli">>
        ELSE <<>>]

InitIncludes ==
    /\ \E present \in SUBSET Headers, closed \in {<<>>, HdrID},
          dirs \in {<<"inc", "a">>, <<"a", "inc">>} :
          InitWith([DefaultOptions EXCEPT !.binary = TRUE, !.serial = TRUE,
                                          !.includeDirs = dirs],
                   TreeOf(present, IncludeLines, HdrIC, closed), ConfigTwoReversed, 1,
                   Environment(1, {"ok"}, TRUE, FALSE), FALSE, 3)
    /\ outFiles = DiskAt(OutputsOf(ItemsOf(config)), 2)
    /\ outDirs = OutputDirs

\* a run with a -D on the command line and a -D in the config line
InitDefined ==
    /\ \E continueOnError \in BOOLEAN :
          InitWith([DefaultOptions EXCEPT !.binary = TRUE, !.serial = TRUE,
                                          !.defines = <<"G=1">>,
                                          !.continueOnError = continueOnError],
                   PlainTree(1, 1), ConfigPerm, 1, Environment(1, {"ok"}, TRUE, TRUE), FALSE, 3)
    /\ outFiles = DiskAt({}, 0)
    /\ outDirs = {}

\* runs of the Slang compiler with a blob form, under --continueOnError
InitSlangBlob ==
    /\ \E f \in {g \in OutputForms : g.binaryBlob \/ g.headerBlob} :
          InitWith([WithForms(DefaultOptions, f) EXCEPT
                       !.slang = TRUE, !.serial = TRUE, !.continueOnError = TRUE],
                   PlainTree(1, 1), ConfigPerm, 1, Environment(1, {"ok"}, TRUE, TRUE), FALSE, 3)
    /\ outFiles = DiskAt({}, 0)
    /\ outDirs = {}

Init ==
    InitClean \/ InitTroubled \/ InitBroken \/ InitDefined \/ InitSlangBlob \/ InitIncludes

Next ==
    \/ MainGetLine
    \/ ProcessConfigLine
    \/ OracleStep
    \/ ProcessConfigLineResume
    \/ MainStartPool
    \/ \E w \in ThreadIds : ExeLoop(w)
    \/ \E w \in ThreadIds : ExePop(w)
    \/ \E w \in ThreadIds : ExeWait(w)
    \/ \E w \in ThreadIds : ExeConvert(w)
    \/ \E w \in ThreadIds : UpdateProgress(w)
    \/ \E w \in ThreadIds : UpdateProgressCount(w)
    \/ SignalHandler
    \/ MainJoin
    \/ MainBlob
    \/ MainReport
    \/ SecondRun

Spec == Init /\ [][Next]_vars

-----------------------------------------------------------------------------
(* Brace expansion: one forced line with up to two brace groups *)

\* The most alternatives of a brace group
MaxAlts == 3

\* an alternative is a digit or empty
AltChoices == {<<"0">>, <<"1">>}

AltLists ==
    UNION {[1 .. n -> AltChoices] : n \in 1 .. MaxAlts} \cup {<<<<"0">>, <<>>, <<"1">>>>, <<<<>>>>}

RECURSIVE GroupBody(_)
GroupBody(alts) ==
    IF Len(alts) = 1 THEN Head(alts) ELSE Head(alts) \o <<",">> \o GroupBody(Tail(alts))

\* the text of a brace group; <<>> stands for no group at all
NoGroup == <<>>

GroupText(alts) == IF alts = NoGroup THEN <<"2">> ELSE <<"{">> \o GroupBody(alts) \o <<"}">>

BraceLine(first, separator, second) ==
    <<"a", "/", "x", ".", "hlsl", " ", "-T", " ", "cs", " ", "-D", " ", "A=">>
        \o GroupText(first) \o separator \o GroupText(second)

InitExpand ==
    /\ \E first \in AltLists \cup {NoGroup}, second \in AltLists \cup {NoGroup},
          separator \in {<<" ", "-D", " ", "B=">>, <<"_">>} :
          InitWith([DefaultOptions EXCEPT !.binary = TRUE, !.force = TRUE],
                   PlainTree(1, 1), <<BraceLine(first, separator, second)>>, 1,
                   Environment(1, {"ok"}, TRUE, FALSE), FALSE, 3)
    /\ outFiles = DiskAt({}, 0)
    /\ outDirs = {}

NextExpand ==
    \/ MainGetLine
    \/ ProcessConfigLine

SpecExpand == InitExpand /\ [][NextExpand]_vars

-----------------------------------------------------------------------------
(* The config preprocessor: every file of MaxLines directives and lines *)

\* The number of lines of a config file
MaxLines == 4

DirIfdefX == <<"#ifdef", " ", "X">>

DirIf1 == <<"#if", " ", "1">>

DirIf0 == <<"#if", " ", "0">>

DirElse == <<"#else">>

DirEndif == <<"\t", "#endif", " ">>

PreprocessorLines == {DirIfdefX, DirIf1, DirIf0, DirElse, DirEndif, LineAx}

InitPreprocess ==
    /\ \E cfg \in [1 .. MaxLines -> PreprocessorLines], defines \in {<<>>, <<"Y", "X">>} :
          InitWith([DefaultOptions EXCEPT !.binary = TRUE, !.force = TRUE, !.defines = defines],
                   PlainTree(1, 1), cfg, 1, Environment(1, {"ok"}, TRUE, FALSE), FALSE, 3)
    /\ outFiles = DiskAt({}, 0)
    /\ outDirs = {}

SpecPreprocess == InitPreprocess /\ [][NextExpand]_vars

-----------------------------------------------------------------------------
(* The program with --useAPI on Windows: every output form, files that may not open *)

\* one worker with compilations that fail and files that do not open, or two
\* workers without

InitApi ==
    /\ \E cfg \in {ConfigTwo, ConfigPerm, ConfigMixed}, f \in OutputForms,
          serial \in BOOLEAN, continueOnError \in BOOLEAN :
          InitWith([WithForms(DefaultOptions, f) EXCEPT
                       !.useAPI = TRUE, !.serial = serial,
                       !.continueOnError = continueOnError],
                   PlainTree(1, 1), cfg, 1,
                   Environment(2, IF serial THEN {"ok", "error", "noopen"} ELSE {"ok"},
                               FALSE, FALSE),
                   FALSE, 3)
    /\ outFiles = DiskAt({}, 0)
    /\ outDirs = {}

NextApi ==
    \/ MainGetLine
    \/ ProcessConfigLine
    \/ MainStartPool
    \/ \E w \in ThreadIds : ExeLoop(w)
    \/ \E w \in ThreadIds : ApiPop(w)
    \/ \E w \in ThreadIds : ApiCompile(w)
    \/ \E w \in ThreadIds : DumpShader(w)
    \/ \E w \in ThreadIds : UpdateProgress(w)
    \/ \E w \in ThreadIds : UpdateProgressCount(w)
    \/ MainJoin
    \/ MainBlob
    \/ MainReport

SpecApi == InitApi /\ [][NextApi]_vars

-----------------------------------------------------------------------------
(* DataOutputContext in text mode: lines 373-442 *)

\* what the text writer leaves alone
textFrame == <<inputVars, oracleVars, planVars, diskVars, counterVars, workerVars, historyVars,
               unitVars, g_TaskData, g_Terminate, sigint, blobsLeft, mainPc, exitCode>>

\* the number of characters "%u" prints for a byte
DecimalLength(value) == IF value \div 100 > 0 THEN 3 ELSE IF value \div 10 > 0 THEN 2 ELSE 1

\* lines 408-413
LineLengthAfter(length, value) ==
    IF value < 10 THEN length + 3 ELSE IF value < 100 THEN length + 4 ELSE length + 5

\* lines 378-383 and 441: a context is opened on a new file
NewDataOutputContext ==
    /\ m_lineLength' = 129
    /\ textLine' = NoValues
    /\ UNCHANGED <<textFrame, blobCalls>>

\* bytes of one, two and three decimal digits
ByteValues == {0, 9, 10, 99, 100, 255}

\* lines 396-414: one turn of the loop of WriteDataAsText; a call that follows
\* another on the same context goes on with the m_lineLength the first left
WriteDataAsText ==
    /\ \E value \in ByteValues :
          LET wraps == m_lineLength > 128
              line == IF wraps THEN NoValues ELSE textLine
          IN  /\ m_lineLength' = LineLengthAfter(IF wraps THEN 0 ELSE m_lineLength, value)
              /\ textLine' = [line EXCEPT ![DecimalLength(value)] = @ + 1]
    /\ UNCHANGED <<textFrame, blobCalls>>

InitText ==
    /\ InitWith([DefaultOptions EXCEPT !.header = TRUE], PlainTree(1, 1), ConfigTwo, 1,
                Environment(1, {"ok"}, TRUE, FALSE), FALSE, 3)
    /\ outFiles = DiskAt({}, 0)
    /\ outDirs = {}

NextText == NewDataOutputContext \/ WriteDataAsText

SpecText == InitText /\ [][NextText]_vars

-----------------------------------------------------------------------------
(* FxcIncluder: lines 829-908 *)

\* what an FxcIncluder leaves alone
includerFrame == <<inputVars, oracleVars, planVars, diskVars, counterVars, workerVars,
                   historyVars, textVars, comVars, g_TaskData, g_Terminate, sigint, blobsLeft,
                   mainPc, exitCode>>

\* The most calls of Open and Close on one FxcIncluder
MaxCalls == 5

NULL == <<>>

\* lines 832-839: the parent of the source file, then the include directories
FxcIncluder(file) ==
    /\ sourceFile = <<>>
    /\ sourceFile' = file
    /\ includeDirs' = <<file[1]>> \o g_Options.includeDirs
    /\ UNCHANGED <<includerFrame, openData, hresult, callLog>>

\* lines 857-867: the first directory that has the file; the loop ends at the
\* last directory when none has it
RECURSIVE FindFile(_, _)
FindFile(dirs, name) ==
    IF Len(dirs) = 1 \/ Exists(Head(dirs), name) THEN <<Head(dirs), name>>
    ELSE FindFile(Tail(dirs), name)

\* An Open that adds a directory whether it opened the file or not
PushedMutAlways(dirs, file, ok) == Append(dirs, file[1])

\* line 887, and the returns of lines 872 and 878 before it
Pushed(dirs, file, ok) == IF ok THEN Append(dirs, file[1]) ELSE dirs

\* lines 844-890: fopen fails for a file that is not there or cannot be read,
\* malloc may return no buffer
Open(pFileName) ==
    /\ sourceFile # <<>>
    /\ Len(callLog) < MaxCalls
    /\ \E buf \in BOOLEAN :
          LET file == FindFile(includeDirs, pFileName)
              stream == file \in DOMAIN files /\ files[file].canOpen
              ok == stream /\ buf
          IN  /\ includeDirs' = Pushed(includeDirs, file, ok)
              /\ openData' = IF ok THEN Append(openData, file) ELSE openData
              /\ hresult' = IF ok THEN "S_OK" ELSE "E_FAIL"
              /\ callLog' = Append(callLog, <<"Open", IF ok THEN "S_OK" ELSE "E_FAIL">>)
    /\ UNCHANGED <<includerFrame, sourceFile>>

\* A Close that takes a directory off whatever it is given
PoppedMutAlways(dirs, pData) == SubSeq(dirs, 1, Len(dirs) - 1)

\* lines 894-898
Popped(dirs, pData) == IF pData # NULL THEN SubSeq(dirs, 1, Len(dirs) - 1) ELSE dirs

\* lines 892-904: the compiler closes the data of the innermost open file, or
\* calls Close without data
Close(pData) ==
    /\ sourceFile # <<>>
    /\ Len(callLog) < MaxCalls
    /\ callLog' = Append(callLog, <<"Close", IF pData # NULL THEN "data" ELSE "NULL">>)
    /\ pData # NULL => (openData # <<>> /\ pData = openData[Len(openData)])
    /\ includeDirs' = Popped(includeDirs, pData)
    /\ openData' = IF pData # NULL THEN SubSeq(openData, 1, Len(openData) - 1) ELSE openData
    /\ hresult' = "S_OK"
    /\ UNCHANGED <<includerFrame, sourceFile>>

-----------------------------------------------------------------------------
(* Config lines with an optimization level: lines 779, 1822-1823 *)

\* the values of -O on a config line; <<>> is a line without -O
Levels == {<<>>, <<"0">>, <<"2">>, <<"3">>, <<"7">>, <<"2", "5", "4">>, <<"2", "5", "5">>,
           <<"2", "5", "6">>}

WithLevel(line, level) == IF level = <<>> THEN line ELSE line \o <<" ", "-O", " ">> \o level

InitLevels ==
    /\ \E levelA \in Levels, levelB \in {<<>>, <<"1">>}, optimizationLevel \in {0, 1, 3, 7},
          signal \in BOOLEAN :
          InitWith([DefaultOptions EXCEPT !.binary = TRUE, !.serial = TRUE,
                                          !.continueOnError = TRUE, !.retryCount = 1,
                                          !.optimizationLevel = optimizationLevel],
                   PlainTree(1, 1), <<WithLevel(LineAx, levelA), WithLevel(LineBx, levelB)>>, 1,
                   Environment(1, {"ok", "echild", "error"}, TRUE, FALSE), signal, 3)
    /\ outFiles = DiskAt({}, 0)
    /\ outDirs = {}

SpecLevels == InitLevels /\ [][NextPool]_vars

IncludeNames == {"c.hlsli", "d.hlsli", "e.hlsli"}

InitIncluder ==
    /\ \E present \in SUBSET Headers, closed \in {<<>>, HdrID},
          dirs \in {<<"inc">>, <<"inc", "a">>} :
          InitWith([DefaultOptions EXCEPT !.binary = TRUE, !.platform = "DXBC",
                                          !.useAPI = TRUE, !.includeDirs = dirs],
                   TreeOf(present, IncludeLines, HdrIC, closed), ConfigTwo, 1,
                   Environment(1, {"ok"}, FALSE, FALSE), FALSE, 3)
    /\ outFiles = DiskAt({}, 0)
    /\ outDirs = {}

NextIncluder ==
    \/ \E file \in {SrcA, SrcB} : FxcIncluder(file)
    \/ \E pFileName \in IncludeNames : Open(pFileName)
    \/ \E pData \in {NULL} \cup Range(openData) : Close(pData)

SpecIncluder == InitIncluder /\ [][NextIncluder]_vars

-----------------------------------------------------------------------------
(* ComPtr: ComPtr.h lines 5-97, over objects that count their references as
   IUnknown does: an object is destroyed when its count reaches zero *)

\* what a ComPtr leaves alone
comFrame == <<inputVars, oracleVars, planVars, diskVars, counterVars, workerVars,
              historyVars, textVars, includerVars, g_TaskData, g_Terminate, sigint,
              blobsLeft, mainPc, exitCode>>

\* the counts of the objects, the destroyed ones, and whether a destroyed one was used
Counts == [refCount |-> refCount, released |-> released, misused |-> misused]

\* IUnknown::AddRef; on a destroyed object the call is undefined
AddRef(st, o) ==
    IF o = nullptr THEN st
    ELSE IF o \in st.released THEN [st EXCEPT !.misused = TRUE]
    ELSE [st EXCEPT !.refCount[o] = @ + 1]

\* IUnknown::Release; the object is destroyed when its count reaches zero
Release(st, o) ==
    IF o = nullptr THEN st
    ELSE IF o \in st.released THEN [st EXCEPT !.misused = TRUE]
    ELSE [st EXCEPT !.refCount[o] = @ - 1,
                    !.released = IF st.refCount[o] = 1 THEN @ \cup {o} ELSE @]

\* the objects a raw pointer can point at when it is handed to a ComPtr
Alive == {o \in Objects : refCount[o] > 0}

\* A call on a destroyed object reads and writes freed memory: the count that
\* is found there afterwards is any
Becomes(st) ==
    /\ released' = st.released
    /\ misused' = st.misused
    /\ IF st.misused
       THEN refCount' \in {[st.refCount EXCEPT ![o] = n] : o \in st.released, n \in {0, 1}}
       ELSE refCount' = st.refCount

\* the maker of an object holds the first reference to it
CreateObject(o) ==
    /\ ~misused
    /\ refCount[o] = 0 /\ o \notin released
    /\ refCount' = [refCount EXCEPT ![o] = 1]
    /\ rawHeld' = rawHeld \cup {o}
    /\ UNCHANGED <<comFrame, m_ComPtr, constructed, released, misused>>

\* the maker gives its reference up
ReleaseRaw(o) ==
    /\ ~misused
    /\ o \in rawHeld
    /\ rawHeld' = rawHeld \ {o}
    /\ Becomes(Release(Counts, o))
    /\ UNCHANGED <<comFrame, m_ComPtr, constructed>>

\* lines 7-13
Construct(p, lComPtr) ==
    /\ ~misused
    /\ p \notin constructed
    /\ constructed' = constructed \cup {p}
    /\ m_ComPtr' = [m_ComPtr EXCEPT ![p] = lComPtr]
    /\ Becomes(AddRef(Counts, lComPtr))
    /\ UNCHANGED <<comFrame, rawHeld>>

\* lines 15-23
CopyConstruct(p, lComPtrObj) ==
    /\ ~misused
    /\ p \notin constructed /\ lComPtrObj \in constructed
    /\ constructed' = constructed \cup {p}
    /\ m_ComPtr' = [m_ComPtr EXCEPT ![p] = m_ComPtr[lComPtrObj]]
    /\ Becomes(AddRef(Counts, m_ComPtr[lComPtrObj]))
    /\ UNCHANGED <<comFrame, rawHeld>>

\* lines 25-29
MoveConstruct(p, lComPtrObj) ==
    /\ ~misused
    /\ p \notin constructed /\ lComPtrObj \in constructed
    /\ constructed' = constructed \cup {p}
    /\ m_ComPtr' = [m_ComPtr EXCEPT ![p] = m_ComPtr[lComPtrObj], ![lComPtrObj] = nullptr]
    /\ UNCHANGED <<comFrame, refCount, released, misused, rawHeld>>

\* lines 33-39 and 46-52: Release on the old pointer, then AddRef on the new
Assigned(st, old, new) == AddRef(Release(st, old), new)

\* lines 31-42
AssignRaw(p, lComPtr) ==
    /\ ~misused
    /\ p \in constructed
    /\ m_ComPtr' = [m_ComPtr EXCEPT ![p] = lComPtr]
    /\ Becomes(Assigned(Counts, m_ComPtr[p], lComPtr))
    /\ UNCHANGED <<comFrame, constructed, rawHeld>>

\* lines 44-55; lComPtrObj may be the ComPtr that is assigned to
AssignComPtr(p, lComPtrObj) ==
    /\ ~misused
    /\ p \in constructed /\ lComPtrObj \in constructed
    /\ m_ComPtr' = [m_ComPtr EXCEPT ![p] = m_ComPtr[lComPtrObj]]
    /\ Becomes(Assigned(Counts, m_ComPtr[p], m_ComPtr[lComPtrObj]))
    /\ UNCHANGED <<comFrame, constructed, rawHeld>>

\* lines 57-64
Destroy(p) ==
    /\ ~misused
    /\ p \in constructed
    /\ constructed' = constructed \ {p}
    /\ m_ComPtr' = [m_ComPtr EXCEPT ![p] = nullptr]
    /\ Becomes(Release(Counts, m_ComPtr[p]))
    /\ UNCHANGED <<comFrame, rawHeld>>

InitComPtr ==
    /\ InitWith([DefaultOptions EXCEPT !.binary = TRUE, !.platform = "DXBC", !.useAPI = TRUE],
                PlainTree(1, 1), ConfigTwo, 1, Environment(1, {"ok"}, FALSE, FALSE), FALSE, 3)
    /\ outFiles = DiskAt({}, 0)
    /\ outDirs = {}

NextComPtr ==
    \/ \E o \in Objects : CreateObject(o)
    \/ \E o \in Objects : ReleaseRaw(o)
    \/ \E p \in Instances, lComPtr \in {nullptr} \cup Alive : Construct(p, lComPtr)
    \/ \E p, lComPtrObj \in Instances : CopyConstruct(p, lComPtrObj)
    \/ \E p, lComPtrObj \in Instances : MoveConstruct(p, lComPtrObj)
    \/ \E p \in Instances, lComPtr \in {nullptr} \cup Alive : AssignRaw(p, lComPtr)
    \/ \E p, lComPtrObj \in Instances : AssignComPtr(p, lComPtrObj)
    \/ \E p \in Instances : Destroy(p)

SpecComPtr == InitComPtr /\ [][NextComPtr]_vars

-----------------------------------------------------------------------------
(* The planner run twice, on two trees that differ in files behind relaxed names *)

\* lines 1636-1651 in a given tree: the file an include name stands for, <<>>
\* when there is none
ResolveIn(tree, path, name) ==
    LET dirs == <<path>> \o g_Options.includeDirs
        found == {i \in DOMAIN dirs : <<dirs[i], name>> \in DOMAIN tree}
    IN  IF found = {} THEN <<>>
        ELSE <<dirs[CHOOSE i \in found : \A j \in found : i <= j], name>>

\* lines 1625-1651: the files the include lines of a file of the tree lead to,
\* the lines with a relaxed name left out
IncludesIn(tree, f) ==
    {ResolveIn(tree, f[1], name) :
        name \in {n \in Range(tree[f].lines) :
                     n # NoInclude /\ n \notin Range(g_Options.relaxedIncludes)}} \ {<<>>}

\* the files of the tree GetHierarchicalUpdateTime may open, starting at files
RECURSIVE ReachIn(_, _, _)
ReachIn(tree, set, fuel) ==
    LET more == set \cup UNION {IncludesIn(tree, f) : f \in set \cap DOMAIN tree}
    IN  IF fuel = 0 \/ more = set THEN set ELSE ReachIn(tree, more, fuel - 1)

\* the sources and what they reach through names that are not relaxed
Reached(tree) == ReachIn(tree, {SrcA, SrcB}, Cardinality(DOMAIN tree) + 1)

\* a header written after the outputs were
TouchedHeader == [time |-> 3, lines |-> <<"c.hlsli">>, canOpen |-> TRUE]

\* The trees that differ from a tree only in headers neither tree reaches but
\* through relaxed names: such a header may be touched, deleted or created
RelaxedVariants(tree) ==
    {other \in UNION {[(DOMAIN tree \ Headers) \cup present ->
                           {tree[f] : f \in DOMAIN tree} \cup {TouchedHeader}] :
                      present \in SUBSET Headers} :
        /\ \A f \in DOMAIN other : f \in DOMAIN tree => other[f] \in {tree[f], TouchedHeader}
        /\ \A f \in DOMAIN other : f \notin DOMAIN tree => other[f] = TouchedHeader
        /\ \A f \in Reached(tree) \cup Reached(other) :
              /\ f \in DOMAIN tree <=> f \in DOMAIN other
              /\ f \in DOMAIN tree => other[f] = tree[f]}

\* main is started again on such a tree, with the disk and the options of the
\* first start
SecondPlan ==
    /\ UNCHANGED <<textVars, unitVars>>
    /\ run = 1
    /\ mainPc \in {"tasks", "exit", "crashed"}
    /\ run' = 2
    /\ firstRun' = [firstRun EXCEPT !.planned = (mainPc = "tasks"), !.tasks = g_TaskData,
                                    !.exitCode = exitCode]
    /\ \E other \in RelaxedVariants(files) : files' = other
    /\ g_HierarchicalUpdateTimes' = <<>>
    /\ callStack' = <<>>
    /\ ghutPc' = "idle"
    /\ ghutFile' = <<>>
    /\ outTime' = 0
    /\ lineIndex' = 0
    /\ blocks' = <<TRUE>>
    /\ pending' = <<>>
    /\ pcl' = NoPcl
    /\ g_TaskData' = <<>>
    /\ g_ShaderBlobs' = <<>>
    /\ mainPc' = "getline"
    /\ exitCode' = -1
    /\ supported' = 0
    /\ UNCHANGED <<g_Options, config, lastWriteTime, configTime, env, diskVars, counterVars, workerVars,
                   g_Terminate, sigint, blobsLeft, requeues, transients>>

RelaxedTrees ==
    {TreeOf(present, lines, newest, <<>>) :
        present \in SUBSET Headers,
        lines \in {l \in TreeLines : l[SrcA] \in {<<"c.hlsli">>, <<"c.hlsli", "d.hlsli">>}},
        newest \in {SrcA, HdrIC, HdrID}}

InitRelaxed ==
    /\ \E tree \in RelaxedTrees, relaxed \in {<<"d.hlsli">>, <<"c.hlsli">>} :
          InitWith([DefaultOptions EXCEPT !.binary = TRUE, !.relaxedIncludes = relaxed],
                   tree, ConfigTwo, 1, Environment(1, {"ok"}, TRUE, FALSE), FALSE, 3)
    /\ outFiles = DiskAt(OutputsOf(ItemsOf(config)), 2)
    /\ outDirs = OutputDirs

NextRelaxed == NextPlan \/ SecondPlan

SpecRelaxed == InitRelaxed /\ [][NextRelaxed]_vars

-----------------------------------------------------------------------------
(* Properties *)

\* The files a file includes: the resolved file of every include line whose
\* name is not relaxed, <<>> for a line that does not resolve
IncludesOf(f) ==
    {ResolveInclude(f[1], name) :
        name \in {n \in Range(files[f].lines) : n # NoInclude /\ ~IsRelaxed(n)}}

RECURSIVE Closure(_, _)
Closure(set, fuel) ==
    LET more == set \cup UNION {IncludesOf(f) : f \in {g \in set : g \in DOMAIN files}}
    IN  IF fuel = 0 \/ more = set THEN set ELSE Closure(more, fuel - 1)

\* the files reached from a file by one include or more
Descendants(f) == Closure(IncludesOf(f), Cardinality(DOMAIN files))

\* the include graph below a file is acyclic and all its includes resolve
WellFormed(f) ==
    /\ f \in DOMAIN files
    /\ \A g \in {f} \cup Descendants(f) :
          /\ g \in DOMAIN files
          /\ files[g].canOpen
          /\ g \notin Descendants(g)

RECURSIVE SetMax(_)
SetMax(set) ==
    LET x == CHOOSE y \in set : TRUE
    IN  IF set = {x} THEN x ELSE Max(x, SetMax(set \ {x}))

RECURSIVE HierarchicalTime(_)
HierarchicalTime(f) ==
    SetMax({files[f].time} \cup {HierarchicalTime(g) : g \in IncludesOf(f)})

\* C1: with one worker, in the pool run, the budget is retryCount less the
\* number of requeues and never negative; every transient failure seen with a
\* budget > 0 is requeued (once the worker has reported it); a transient
\* failure seen with budget 0 is not retried: the task is on its way to the
\* failed counter and is not back in the queue.
C1_SerialRetryBudget ==
    (threadsNum = 1 /\ mainPc = "join") =>
        /\ g_TaskRetryCount = g_Options.retryCount - requeues
        /\ g_TaskRetryCount >= 0
        /\ transients = requeues + (IF wpc[1] = "update" /\ willRetry[1] THEN 1 ELSE 0)
        /\ (wpc[1] = "update" /\ IsTransient(result[1]))
              => (willRetry[1] <=> g_TaskRetryCount > 0)
        /\ (wpc[1] = "count")
              => /\ ~willRetry[1]
                 /\ Len(g_TaskData) + g_ProcessedTaskCount + g_FailedTaskCount + 1
                       = g_OriginalTaskCount

C1_Witness ==
    /\ threadsNum = 1
    /\ mainPc = "join"
    /\ g_Options.retryCount = MaxRetry
    /\ requeues = MaxRetry
    /\ wpc[1] = "count"
    /\ IsTransient(result[1])

\* C2: under every interleaving of the workers the retry budget is never
\* below 0 and no more tasks are requeued than --retryCount allows.
C2_BudgetNeverNegative ==
    /\ g_TaskRetryCount >= 0
    /\ requeues <= g_Options.retryCount

\* the entries of every blob group
BlobEntries ==
    UNION {{<<b, i>> : i \in DOMAIN g_ShaderBlobs[b]} : b \in DOMAIN g_ShaderBlobs}

\* C3: when a blob form is requested, at the end of planning the blob groups
\* hold one entry for every expanded line that passed the platform filter,
\* the lines skipped as up to date included.
C3_BlobEntryForEveryLine ==
    (IsBlob /\ mainPc = "tasks") => Cardinality(BlobEntries) = supported

\* C4: after planning no two tasks have the same output path without extension.
C4_UniqueOutputPaths ==
    (mainPc = "tasks") =>
        \A i, j \in DOMAIN g_TaskData :
            i # j => g_TaskData[i].outputFileWithoutExt # g_TaskData[j].outputFileWithoutExt

\* C5: no two workers have a compiler process running that writes the same
\* output file.
C5_DisjointWrites ==
    \A v, w \in ThreadIds :
        (v # w /\ wpc[v] = "running" /\ wpc[w] = "running")
            => CompilerOutputs(taskData[v]) \cap CompilerOutputs(taskData[w]) = {}

\* C6: two distinct entries of a blob group have different combined defines.
C6_DistinctDefinesInGroup ==
    \A b \in DOMAIN g_ShaderBlobs :
        \A i, j \in DOMAIN g_ShaderBlobs[b] :
            i # j => g_ShaderBlobs[b][i].combinedDefines # g_ShaderBlobs[b][j].combinedDefines

\* C7: for a file whose include graph is acyclic and resolves, the memo holds,
\* and a finished top-level call returns, the maximum of the file's own time
\* and the hierarchical times of its includes that are not relaxed, whatever
\* the order of the visits and whether the value was computed or memoized.
C7_HierarchicalTime ==
    /\ \A f \in DOMAIN g_HierarchicalUpdateTimes :
          WellFormed(f) => g_HierarchicalUpdateTimes[f] = HierarchicalTime(f)
    /\ (mainPc = "oracle" /\ ghutPc = "done" /\ WellFormed(SourceFileOf(pcl.cl)))
          => outTime = HierarchicalTime(SourceFileOf(pcl.cl))

\* the second line names the source of the first: the call is served from the
\* memo, and an include is newer than the source
C7_Witness ==
    /\ config = ConfigRepeatedLine
    /\ lineIndex = 2
    /\ mainPc = "oracle"
    /\ ghutPc = "done"
    /\ WellFormed(SrcA)
    /\ Cardinality(Descendants(SrcA)) >= 2
    /\ outTime > files[SrcA].time

\* C8: the oracle ends on every include graph: no file is entered while it is
\* on the call stack, and the recursion never exhausts the stack.
C8_OracleTerminates ==
    /\ ghutPc # "overflow"
    /\ \A i, j \in DOMAIN callStack : i # j => callStack[i].file # callStack[j].file

\* C9: after a first run without --force that ended with exit code 0, no
\* failed task and no failed blob, the second run plans no task.
C9_SecondRunPlansNothing ==
    (run = 2 /\ mainPc = "tasks" /\ ~g_Options.force
        /\ firstRun.exitCode = 0 /\ firstRun.failed = 0 /\ ~firstRun.blobFailed)
        => g_TaskData = <<>>

\* C10: with --force the oracle is never called, planning has one task for
\* every expanded line that passed the platform filter, and the second run
\* plans the tasks of the first.
C10_ForcePlansEverything ==
    g_Options.force =>
        /\ ghutPc = "idle"
        /\ g_HierarchicalUpdateTimes = <<>>
        /\ (mainPc \in {"getline", "expand", "tasks"}) => Len(g_TaskData) = supported
        /\ (run = 2 /\ mainPc = "tasks") => g_TaskData = firstRun.tasks

C10_Witness ==
    /\ g_Options.force
    /\ run = 2
    /\ mainPc = "tasks"
    /\ firstRun.exitCode = 0
    /\ Len(g_TaskData) >= 2
    /\ \A i \in DOMAIN g_TaskData :
          (g_TaskData[i].outputFileWithoutExt \o g_OutputExt) \in DOMAIN outFiles

\* The text between commas
RECURSIVE SplitAtCommas(_, _, _)
SplitAtCommas(s, cur, acc) ==
    IF s = <<>> THEN Append(acc, cur)
    ELSE IF Head(s) = "," THEN SplitAtCommas(Tail(s), <<>>, Append(acc, cur))
    ELSE SplitAtCommas(Tail(s), Append(cur, Head(s)), acc)

\* A line as a sequence of lists of alternatives: a brace group is the list of
\* its alternatives, the text outside the groups a list of one
RECURSIVE SegmentsOf(_)
SegmentsOf(s) ==
    IF s = <<>> THEN <<>>
    ELSE IF Head(s) = "{"
    THEN LET closing == Find(s, <<"}">>, 1)
         IN  <<SplitAtCommas(SubSeq(s, 2, closing - 1), <<>>, <<>>)>>
                 \o SegmentsOf(SubSeq(s, closing + 1, Len(s)))
    ELSE LET opening == Find(s, <<"{">>, 1)
             end == IF opening = 0 THEN Len(s) ELSE opening - 1
         IN  <<<<SubSeq(s, 1, end)>>>> \o SegmentsOf(SubSeq(s, end + 1, Len(s)))

\* The tuples of alternatives in lexicographic order, the leftmost slowest
RECURSIVE TuplesOf(_)
TuplesOf(segments) ==
    IF segments = <<>> THEN <<<<>>>>
    ELSE LET rest == TuplesOf(Tail(segments))
             alts == Head(segments)
         IN  [k \in 1 .. Len(alts) * Len(rest) |->
                 alts[((k - 1) \div Len(rest)) + 1] \o rest[((k - 1) % Len(rest)) + 1]]

RECURSIVE ProductOfSizes(_)
ProductOfSizes(segments) ==
    IF segments = <<>> THEN 1 ELSE Len(Head(segments)) * ProductOfSizes(Tail(segments))

\* C11: the expanded lines of a config line with brace groups are the tuples
\* of alternatives, n1 * ... * nk of them, in lexicographic order with the
\* leftmost group slowest: while the line is processed, the lines still to
\* process are the tuples that follow the tasks already planned, and the
\* combined defines of the planned tasks are those of the first tuples.
C11_BraceExpansion ==
    (lineIndex = 1 /\ mainPc \in {"expand", "getline"}) =>
        LET segments == SegmentsOf(TrimConfigLine(config[1]))
            tuples == TuplesOf(segments)
            done == Len(g_TaskData)
        IN  /\ Len(tuples) = ProductOfSizes(segments)
            /\ done + Len(pending) = Len(tuples)
            /\ \A i \in DOMAIN pending :
                  pending[i] = [ok |-> TRUE, line |-> tuples[done + i]]
            /\ \A i \in DOMAIN g_TaskData :
                  g_TaskData[i].combinedDefines =
                      TaskOf(ConfigLineParse(TokenizeConfigLine(tuples[i]))).combinedDefines

\* two groups of three and two alternatives: six lines, the third planned
C11_Witness ==
    /\ mainPc = "expand"
    /\ ProductOfSizes(SegmentsOf(config[1])) = 6
    /\ Len(SegmentsOf(config[1])) = 4
    /\ Len(SegmentsOf(config[1])[2]) = 3
    /\ Len(g_TaskData) = 3
    /\ g_TaskData[3].combinedDefines = "A=1 B=0"
    /\ Len(pending) = 3

\* The directive of a config line, "" for a line that is none
DirectiveOf(line) ==
    IF Find(line, <<"#ifdef">>, 1) # 0 THEN "ifdef"
    ELSE IF Find(line, <<"#if", " ", "1">>, 1) # 0 THEN "if1"
    ELSE IF Find(line, <<"#if", " ", "0">>, 1) # 0 THEN "if0"
    ELSE IF Find(line, <<"#endif">>, 1) # 0 THEN "endif"
    ELSE IF Find(line, <<"#else">>, 1) # 0 THEN "else"
    ELSE ""

\* blocks opened less blocks closed by the lines from..to
RECURSIVE Nesting(_, _)
Nesting(from, to) ==
    IF from > to THEN 0
    ELSE Nesting(from, to - 1)
            + (IF DirectiveOf(config[to]) \in {"ifdef", "if1", "if0"} THEN 1
               ELSE IF DirectiveOf(config[to]) = "endif" THEN -1 ELSE 0)

\* line i lies between an "#if 0" and its "#endif", before any "#else" of it
Suppressed(i) ==
    \E j \in 1 .. i - 1 :
        /\ DirectiveOf(config[j]) = "if0"
        /\ \A k \in j + 1 .. i - 1 :
              ~(DirectiveOf(config[k]) \in {"endif", "else"} /\ Nesting(j + 1, k - 1) = 0)

\* C12: a config line between an "#if 0" and its "#endif", with no "#else"
\* of that block before it, is never expanded; the block an "#ifdef NAME" has
\* just opened is active exactly if NAME is a global define and the enclosing
\* block is active; an active block never lies in an inactive one.
C12_Preprocessor ==
    /\ (mainPc = "expand") => ~Suppressed(lineIndex)
    /\ (mainPc = "getline" /\ lineIndex >= 1 /\ DirectiveOf(config[lineIndex]) = "ifdef")
          => /\ Len(blocks) >= 2
             /\ blocks[Len(blocks)] <=>
                   (IfdefName(TrimConfigLine(config[lineIndex])) \in Range(g_Options.defines)
                       /\ blocks[Len(blocks) - 1])
    /\ \A k \in 2 .. Len(blocks) : blocks[k] => blocks[k - 1]

\* a line in an "#if 1" nested in an "#if 0" has been passed over, and the
\* inner "#endif" has left the outer block inactive
C12_Witness ==
    /\ SubSeq(config, 1, 4) = <<DirIf0, DirIf1, LineAx, DirEndif>>
    /\ lineIndex = 4
    /\ mainPc = "getline"
    /\ g_TaskData = <<>>
    /\ blocks = <<TRUE, FALSE>>

\* the loop over the config file ended without a return
PlanningSucceeded == lineIndex = Len(config) /\ pending = <<>>

\* the blob loop returned 1: a blob failed and --continueOnError is not set
BlobAborted == firstRun.blobFailed /\ ~g_Options.continueOnError

RECURSIVE DepthAfter(_)
DepthAfter(i) ==
    IF i = 0 THEN 1
    ELSE LET before == DepthAfter(i - 1)
             directive == DirectiveOf(config[i])
         IN  IF directive \in {"ifdef", "if1", "if0"} THEN before + 1
             ELSE IF directive = "endif" /\ before > 1 THEN before - 1
             ELSE before

\* line i is an "#endif" or an "#else" outside any block
UnexpectedDirective(i) ==
    /\ DirectiveOf(config[i]) \in {"endif", "else"}
    /\ DepthAfter(i - 1) = 1

\* C14: once the loop over the config file has met an "#endif" or an "#else"
\* outside any block, no later line is expanded, the pool is not started and
\* main returns a non-zero value.
C14_UnexpectedDirectiveFatal ==
    (\E i \in 1 .. lineIndex : UnexpectedDirective(i)) =>
        /\ mainPc \notin {"expand", "tasks", "join"}
        /\ \A w \in ThreadIds : wpc[w] = "idle"
        /\ (mainPc = "exit") => exitCode # 0

\* the blob loop has met a group that holds an entry without defines next to
\* other entries
InvalidGroupMet ==
    /\ firstRun.blobFailed
    /\ \E blobName \in (DOMAIN g_ShaderBlobs) \ blobsLeft :
          /\ ~IsSingleWithoutDefines(g_ShaderBlobs[blobName])
          /\ HasInvalidEntry(g_ShaderBlobs[blobName])

\* C15: a run whose blob loop has met a group with an entry without defines
\* next to other entries ends with a non-zero exit code, with and without
\* --continueOnError.
C15_BlobValidationFailureCounts ==
    (mainPc = "exit" /\ run = 1 /\ InvalidGroupMet) => exitCode # 0

\* C16: with --continueOnError only a signal sets the terminate flag, so a
\* task that fails for good leaves it clear; when the pool has joined with the
\* flag clear the queue is empty, every planned task has been counted once, as
\* processed or as failed, and main returns 1 if the failed counter is
\* positive.
C16_ContinueOnError ==
    /\ [][(g_Options.continueOnError /\ sigint' = sigint) => g_Terminate' = g_Terminate]_vars
    /\ [](  (g_Options.continueOnError /\ ~g_Terminate /\ mainPc \in {"blobs", "exit"})
            => /\ g_TaskData = <<>>
               /\ g_ProcessedTaskCount + g_FailedTaskCount = g_OriginalTaskCount
               /\ (mainPc = "exit" /\ g_FailedTaskCount > 0) => exitCode = 1)

\* one task has been counted as failed and the other one went on to succeed
C16_Witness ==
    /\ g_Options.continueOnError
    /\ mainPc = "join"
    /\ ~g_Terminate
    /\ g_FailedTaskCount = 1
    /\ \E w \in ThreadIds : wpc[w] = "update" /\ isSucceeded[w]

\* every worker thread has left ExeCompile
AllReturned == \A w \in ThreadIds : w <= threadsNum => wpc[w] = "returned"

\* C17: the blob loop is entered only from the join, with every worker
\* returned and the terminate flag clear; a join that finds the flag set ends
\* main with 1 and leaves the disk as the workers left it; outside the pool
\* only the blob loop changes the disk.
C17_BlobsAfterJoin ==
    /\ [](mainPc = "blobs" => AllReturned)
    /\ [][(mainPc' = "blobs" /\ mainPc # "blobs")
             => (mainPc = "join" /\ AllReturned /\ ~g_Terminate)]_vars
    /\ [][(mainPc = "join" /\ mainPc' # "join" /\ g_Terminate)
             => (mainPc' = "exit" /\ exitCode' = 1 /\ outFiles' = outFiles)]_vars
    /\ [][(outFiles' # outFiles /\ mainPc # "join") => mainPc = "blobs"]_vars

\* a run with --binaryBlob ended at the join after one of the two permutations
\* failed: the permutation that succeeded is on the disk, the blob is not
C17_Witness ==
    /\ mainPc = "exit"
    /\ run = 1
    /\ exitCode = 1
    /\ g_Terminate
    /\ g_Options.binaryBlob
    /\ g_ProcessedTaskCount = 1
    /\ g_FailedTaskCount = 1
    /\ \E blobName \in DOMAIN g_ShaderBlobs :
          /\ Len(g_ShaderBlobs[blobName]) = 2
          /\ (blobName \o g_OutputExt) \notin DOMAIN outFiles
          /\ \E i \in 1 .. 2 :
                (g_ShaderBlobs[blobName][i].permutationFileWithoutExt \o g_OutputExt)
                    \in DOMAIN outFiles

\* C18: the planner started on a tree that differs from the tree of its first
\* start only in headers reached through relaxed names alone ends as the first
\* start did, with the same tasks planned and the same lines skipped.
C18_RelaxedNoninterference ==
    (run = 2 /\ mainPc \in {"tasks", "exit", "crashed"}) =>
        /\ firstRun.planned <=> mainPc = "tasks"
        /\ firstRun.tasks = g_TaskData
        /\ firstRun.exitCode = exitCode

\* the second start found inc/d.hlsli, which b/x.hlsl includes, written after
\* the outputs, and a/x.hlsl is the one task of both starts
C18_Witness ==
    /\ run = 2
    /\ mainPc = "tasks"
    /\ g_Options.relaxedIncludes = <<"d.hlsli">>
    /\ HdrID \in DOMAIN files
    /\ files[HdrID] = TouchedHeader
    /\ Len(g_TaskData) = 1
    /\ g_TaskData[1].source = firstRun.tasks[1].source

\* C19: in the command line of a compiler process every -D of the command
\* line of the driver stands before every -D of the config line, which is the
\* order DxcCompile uses.
C19_GlobalDefinesFirst ==
    \A w \in ThreadIds :
        (wpc[w] = "running") =>
            LET args == CommandDefines(taskData[w])
            IN  /\ \A i, j \in DOMAIN args :
                      (args[i] \in Range(g_Options.defines)
                          /\ args[j] \in Range(taskData[w].defines)) => i < j
                /\ args = DxcDefines(taskData[w])

\* the worker has come back from DumpShader with its task
Dumped(w) == mainPc = "join" /\ wpc[w] = "update" /\ isSucceeded[w]

\* <output-path><ext> of the task a worker holds
DumpedFile(w) == taskData[w].outputFileWithoutExt \o g_OutputExt

RunningLength(line) == 3 * line[1] + 4 * line[2] + 5 * line[3]

\* C21: no line of the body of a header has a running length above 128.
C21_LineWithin128 == RunningLength(textLine) <= 128

\* C22: when pclose has returned, status 0 is a success; -1 with ECHILD, or on
\* POSIX the exit code 127 of the shell, is retried exactly if the budget is
\* above 0 at that moment; every other case is neither.  The report of a retry
\* puts the task back and takes one from the budget; the report of a success
\* or of a failure leaves the budget and the queue as they are, a success
\* goes to the processed counter and a failure on to the failed counter.
C22_OutcomeClassification ==
    [][\A w \in ThreadIds :
          /\ (wpc[w] = "running" /\ wpc'[w] # "running") =>
                /\ isSucceeded'[w] <=> result'[w] = "ok"
                /\ willRetry'[w] <=>
                      /\ result'[w] = "echild" \/ (env.posix /\ result'[w] = "shell127")
                      /\ g_TaskRetryCount > 0
          /\ (wpc[w] = "update" /\ wpc'[w] # "update") =>
                IF willRetry[w] /\ ~isSucceeded[w]
                THEN /\ g_TaskRetryCount' = g_TaskRetryCount - 1
                     /\ g_TaskData' = Append(g_TaskData, taskData[w])
                     /\ wpc'[w] = "loop"
                ELSE /\ g_TaskRetryCount' = g_TaskRetryCount
                     /\ g_TaskData' = g_TaskData
                     /\ IF isSucceeded[w]
                        THEN g_ProcessedTaskCount' = g_ProcessedTaskCount + 1 /\ wpc'[w] = "loop"
                        ELSE g_ProcessedTaskCount' = g_ProcessedTaskCount /\ wpc'[w] = "count"
      ]_vars

\* on POSIX the shell has ended with 127 while the budget was above 0, and
\* the task is to be retried
C22_Witness ==
    \E w \in ThreadIds :
        /\ wpc[w] = "update"
        /\ env.posix
        /\ result[w] = "shell127"
        /\ willRetry[w]
        /\ g_TaskRetryCount > 0

\* C23: the report of a task that is to be retried leaves the processed
\* counter, the failed counter, the number of planned tasks and the terminate
\* flag as they are, and the disk and the blob groups too: it pushes the task
\* back on the queue and takes one from the retry budget.
C23_RetryQueuedFrame ==
    [][\A w \in ThreadIds :
          (wpc[w] = "update" /\ wpc'[w] # "update" /\ ~isSucceeded[w] /\ willRetry[w]) =>
              /\ g_ProcessedTaskCount' = g_ProcessedTaskCount
              /\ g_FailedTaskCount' = g_FailedTaskCount
              /\ g_OriginalTaskCount' = g_OriginalTaskCount
              /\ g_Terminate' = g_Terminate
              /\ outFiles' = outFiles
              /\ g_ShaderBlobs' = g_ShaderBlobs
              /\ Len(g_TaskData') = Len(g_TaskData) + 1
              /\ g_TaskData'[Len(g_TaskData')] = taskData[w]
              /\ SubSeq(g_TaskData', 1, Len(g_TaskData)) = g_TaskData
              /\ g_TaskRetryCount' = g_TaskRetryCount - 1
      ]_vars

\* the first task taken has come back to the queue, behind the task that was
\* waiting, and no counter has moved
C23_Witness ==
    \E w \in ThreadIds :
        /\ mainPc = "join"
        /\ wpc[w] = "loop"
        /\ requeues = 1
        /\ Len(g_TaskData) = 2
        /\ g_TaskData[2] = taskData[w]
        /\ g_TaskRetryCount = g_Options.retryCount - 1
        /\ g_ProcessedTaskCount = 0
        /\ g_FailedTaskCount = 0
        /\ ~g_Terminate

\* C24: from the start of the pool to its join no step changes the blob
\* groups, the memo of hierarchical times, the options, the config file or the
\* number of planned tasks; what the steps of that time change of the shared
\* state is the queue, the three counters and the terminate flag.
C24_PoolFrame ==
    [][(mainPc = "join") =>
          /\ g_ShaderBlobs' = g_ShaderBlobs
          /\ g_HierarchicalUpdateTimes' = g_HierarchicalUpdateTimes
          /\ g_Options' = g_Options
          /\ g_OriginalTaskCount' = g_OriginalTaskCount
          /\ UNCHANGED <<config, configTime, files, lineIndex, blocks, pending>>
      ]_vars

\* the pool has counted a success and a failure, and the blob groups the
\* planner registered are there
C24_Witness ==
    /\ mainPc = "join"
    /\ g_ProcessedTaskCount = 1
    /\ g_FailedTaskCount = 1
    /\ g_TaskData = <<>>
    /\ g_ShaderBlobs # <<>>
    /\ \A b \in DOMAIN g_ShaderBlobs : Len(g_ShaderBlobs[b]) = 2

\* the permutation files of a blob group
PermutationFiles(blobName) ==
    {g_ShaderBlobs[blobName][i].permutationFileWithoutExt \o g_OutputExt :
        i \in DOMAIN g_ShaderBlobs[blobName]}

\* the blob loop takes a group whose entries all have defines and of which a
\* permutation file is not there to be read
TakesUnreadableGroup(blobName) ==
    /\ mainPc = "blobs"
    /\ blobName \in blobsLeft
    /\ blobsLeft' = blobsLeft \ {blobName}
    /\ ~HasInvalidEntry(g_ShaderBlobs[blobName])
    /\ PermutationFiles(blobName) \ DOMAIN outFiles # {}

\* C25: when a permutation file of a group cannot be read, with
\* --continueOnError the loop goes on to the next group, writes no header blob
\* after the binary blob has failed and removes no permutation file of the
\* group; without it main returns 1.
C25_BlobFailureHandling ==
    [][\A blobName \in DOMAIN g_ShaderBlobs :
          TakesUnreadableGroup(blobName) =>
              IF g_Options.continueOnError
              THEN /\ mainPc' = "blobs"
                   /\ PermutationFiles(blobName) \cap DOMAIN outFiles \subseteq DOMAIN outFiles'
                   /\ (g_Options.binaryBlob
                          /\ (blobName \o g_OutputExt \o ".h") \in DOMAIN outFiles')
                         => (blobName \o g_OutputExt \o ".h") \in DOMAIN outFiles
              ELSE mainPc' = "exit" /\ exitCode' = 1
      ]_vars

\* C26: when the blob loop takes a group that holds an entry without defines,
\* the disk stays as it is: no blob file is written and no permutation file
\* removed.  A group of that one entry is passed over; any other such group
\* ends main with 1, or is passed over under --continueOnError.
C26_NoBlobForEmptyDefines ==
    [][\A blobName \in DOMAIN g_ShaderBlobs :
          (/\ mainPc = "blobs"
           /\ blobName \in blobsLeft
           /\ blobsLeft' = blobsLeft \ {blobName}
           /\ \E i \in DOMAIN g_ShaderBlobs[blobName] :
                 g_ShaderBlobs[blobName][i].combinedDefines = "")
          => /\ outFiles' = outFiles
             /\ IF Len(g_ShaderBlobs[blobName]) = 1 \/ g_Options.continueOnError
                THEN mainPc' = "blobs" /\ exitCode' = exitCode
                ELSE mainPc' = "exit" /\ exitCode' = 1
      ]_vars

\* under --continueOnError the loop has passed a group of three entries, one
\* of them without defines, and the three permutation files are there
C26_Witness ==
    /\ mainPc = "blobs"
    /\ g_Options.continueOnError
    /\ g_Options.binaryBlob
    /\ \E blobName \in (DOMAIN g_ShaderBlobs) \ blobsLeft :
          /\ Len(g_ShaderBlobs[blobName]) = 3
          /\ g_ShaderBlobs[blobName][1].combinedDefines = ""
          /\ PermutationFiles(blobName) \subseteq DOMAIN outFiles
          /\ Cardinality(PermutationFiles(blobName)) = 3

\* the calls that make a whole blob of a group: the file header, then one
\* permutation for each entry in the order of registration, with the defines
\* of the entry and the data of its permutation file
IsWholeBlob(calls, blobName) ==
    LET entries == g_ShaderBlobs[blobName]
    IN  /\ Len(calls) = Len(entries) + 1
        /\ calls[1] = WriteFileHeader
        /\ \A i \in DOMAIN entries :
              /\ calls[i + 1][1] = "WritePermutation"
              /\ calls[i + 1][2] = entries[i].combinedDefines
              /\ calls[i + 1][3] = entries[i].permutationFileWithoutExt \o g_OutputExt

\* C27: when the first run has ended with 0 and every planned task succeeded,
\* each requested blob form of every group whose entries all have defines is
\* a whole blob, and the permutation files of the group are there exactly if
\* --binary is set.
C27_BlobEmission ==
    (mainPc = "exit" /\ run = 1 /\ exitCode = 0 /\ g_OriginalTaskCount > 0
        /\ g_ProcessedTaskCount = g_OriginalTaskCount) =>
        \A blobName \in DOMAIN g_ShaderBlobs :
            (\A i \in DOMAIN g_ShaderBlobs[blobName] :
                 g_ShaderBlobs[blobName][i].combinedDefines # "")
            => /\ g_Options.binaryBlob =>
                     /\ (blobName \o g_OutputExt) \in DOMAIN blobCalls
                     /\ IsWholeBlob(blobCalls[blobName \o g_OutputExt], blobName)
               /\ g_Options.headerBlob =>
                     /\ (blobName \o g_OutputExt \o ".h") \in DOMAIN blobCalls
                     /\ IsWholeBlob(blobCalls[blobName \o g_OutputExt \o ".h"], blobName)
               /\ \A file \in PermutationFiles(blobName) :
                     file \in DOMAIN outFiles <=> g_Options.binary

\* a "{" of the line with no "}" after it
HasUnclosedBrace(line) ==
    \E i \in DOMAIN line :
        /\ line[i] = "{"
        /\ \A j \in DOMAIN line : j > i => line[j] # "}"

\* the line main has just read is handed to ExpandPermutations
IsExpanded(line) == ~IsSkipped(line) /\ ~IsDirective(line) /\ blocks[Len(blocks)]

\* the workers of the pool have not been started
NoWorkerStarted == \A w \in ThreadIds : wpc[w] = "idle"

\* C28: a line with a "{" that no "}" follows, once main hands it to
\* ExpandPermutations, ends the run in the next step with code 1: no task is
\* planned from it, the tasks and groups of the earlier lines stay as they
\* are, no worker is started, no blob is assembled and no later line is read.
C28_MissingBraceFatal ==
    [][/\ (/\ mainPc = "getline"
           /\ lineIndex < Len(config)
           /\ HasUnclosedBrace(TrimConfigLine(config[lineIndex + 1]))
           /\ IsExpanded(TrimConfigLine(config[lineIndex + 1])))
          => (mainPc' = "expand" /\ lineIndex' = lineIndex + 1)
       /\ (/\ mainPc = "expand"
           /\ HasUnclosedBrace(TrimConfigLine(config[lineIndex])))
          => /\ mainPc' = "exit"
             /\ exitCode' = 1
             /\ NoWorkerStarted /\ NoWorkerStarted'
             /\ UNCHANGED <<lineIndex, g_TaskData, g_ShaderBlobs, blobCalls, outFiles,
                            g_ProcessedTaskCount>>]_vars

\* the run has ended with 1 at a line with a "{" behind a closed group, after
\* an earlier line has planned a task
C28_Witness ==
    /\ mainPc = "exit"
    /\ exitCode = 1
    /\ lineIndex = 2
    /\ config[lineIndex] = LineOpen
    /\ Len(g_TaskData) = 1
    /\ NoWorkerStarted
    /\ blobCalls = <<>>

\* the output files the requested forms require of an expanded line
RequiredOutputs(cl) ==
    {OutputByForm(cl)[form] : form \in {f \in {"binary", "header", "binaryBlob", "headerBlob"} :
                                            g_Options[f]}}

\* a rebuild is forced: --force, a directory to create, a required output
\* file that is not there
RebuildForced(cl) ==
    \/ g_Options.force
    \/ EndPathOf(cl) # "" /\ EndPathOf(cl) \notin outDirs
    \/ \E f \in RequiredOutputs(cl) : f \notin DOMAIN outFiles

\* the minimum of the write times of the required output files
OutputTimeOf(cl) ==
    CHOOSE t \in {outFiles[f] : f \in RequiredOutputs(cl)} :
        \A f \in RequiredOutputs(cl) : t <= outFiles[f]

\* the maximum of the hierarchical time the oracle returned and the write
\* times of the config file and of the executable
SourceTimeOf == Max(outTime, Max(lastWriteTime.configFile, lastWriteTime.self))

\* C29: an expanded line that parses and has a supported profile gets a task
\* at once when a rebuild is forced and goes to the oracle otherwise; after
\* the oracle has returned a time, the line is skipped exactly if the minimum
\* write time of the required output files is later than the maximum of the
\* hierarchical time of the source, the time of the config file and the time
\* of the executable, and gets a task otherwise.
C29_FreshnessCheck ==
    [][/\ (/\ mainPc = "expand"
           /\ pending # <<>>
           /\ Head(pending).ok
           /\ ConfigLineParse(TokenizeConfigLine(Head(pending).line)).ok)
          => LET cl == ConfigLineParse(TokenizeConfigLine(Head(pending).line))
             IN  IF RebuildForced(cl)
                 THEN g_TaskData' = Append(g_TaskData, TaskOf(cl))
                 ELSE /\ mainPc' = "oracle"
                      /\ UNCHANGED <<g_TaskData, pending, outDirs>>
       /\ (mainPc = "oracle" /\ ghutPc = "done")
          => /\ ~RebuildForced(pcl.cl)
             /\ pending' = Tail(pending)
             /\ IF OutputTimeOf(pcl.cl) > SourceTimeOf
                THEN g_TaskData' = g_TaskData
                ELSE g_TaskData' = Append(g_TaskData, TaskOf(pcl.cl))]_vars

\* two lines have been skipped: the binary and the header of each are there,
\* of different ages, both newer than the source, the config file and the
\* executable
C29_Witness ==
    /\ mainPc = "tasks"
    /\ supported = 2
    /\ g_TaskData = <<>>
    /\ g_Options.binary /\ g_Options.header
    /\ \E f, g \in UNION {RequiredOutputs(ItemsOf(config)[i]) : i \in {1, 2}} :
          outFiles[f] # outFiles[g]
    /\ g_HierarchicalUpdateTimes # <<>>

\* C30: in a run of the pool the terminate flag, once set, stays set; a
\* worker takes a task only behind a poll at the top of its loop that found
\* the flag clear, so that with the flag set a worker at the top of its loop
\* returns, a worker that has returned stays so, and a worker leaves the task
\* it has only for the top of the loop; and once the flag is set with the
\* pool started, every worker returns, whatever is left in the queue.
C30_Cancellation ==
    /\ [][/\ g_Terminate => g_Terminate'
          /\ \A w \in ThreadIds :
                /\ (wpc[w] # "lock" /\ wpc'[w] = "lock") => (wpc[w] = "loop" /\ ~g_Terminate)
                /\ taskData'[w] # taskData[w] => wpc[w] = "lock"
                /\ (g_Terminate /\ wpc[w] = "loop") => wpc'[w] \in {"loop", "returned"}
                /\ (g_Terminate /\ wpc[w] = "returned") => wpc'[w] = "returned"
                /\ (wpc[w] \in {"update", "count"} /\ wpc'[w] # wpc[w])
                      => wpc'[w] \in {"count", "loop"}]_vars
    /\ (g_Terminate /\ mainPc = "join") ~> AllReturned

\* the flag is set, every worker has returned and a task is left in the queue
C30_Witness ==
    /\ g_Terminate
    /\ mainPc = "join"
    /\ AllReturned
    /\ g_TaskData # <<>>

\* lines 444-468: the files DumpShader writes for a task when both open
DumpShaderFiles(task) ==
    LET file == task.outputFileWithoutExt \o g_OutputExt
    IN  (IF WritesBinary(task) THEN {file} ELSE {})
            \cup (IF WritesHeader(task) THEN {file \o ".h"} ELSE {})

\* C31: in a first run on an empty output directory, when a worker comes
\* back from a compiler process that succeeded (and from the conversion of a
\* Slang binary), the files of its task on the disk are the files DumpShader
\* writes for the task.
C31_BackendInterchangeability ==
    \A w \in ThreadIds :
        (/\ Dumped(w)
         /\ ~g_Options.useAPI
         /\ run = 1
         /\ \A f \in DOMAIN outFiles : outFiles[f] >= 3)
        => {f \in {DumpedFile(w), DumpedFile(w) \o ".h"} : f \in DOMAIN outFiles}
              = DumpShaderFiles(taskData[w])

\* the include line the oracle is at: the name of a file that is not relaxed
AtInclude ==
    /\ mainPc = "oracle"
    /\ ghutPc = "scan"
    /\ callStack # <<>>
    /\ Head(callStack).line <= Len(files[Head(callStack).file].lines)
    /\ files[Head(callStack).file].lines[Head(callStack).line] # NoInclude
    /\ files[Head(callStack).file].lines[Head(callStack).line]
          \notin Range(g_Options.relaxedIncludes)

\* C32: an include line stands for the file of that name in the directory of
\* the including file, or else in the first include directory that has it,
\* and the oracle goes on with that file; when no directory has it, or when a
\* file that is not memoized cannot be opened, the oracle fails; a failed
\* oracle has memoized none of the files on its call stack, and main ends
\* with 1 in the next step, before any worker is started.
C32_IncludeResolution ==
    [][/\ AtInclude =>
             LET top == Head(callStack)
                 incl == ResolveIn(files, top.file[1], files[top.file].lines[top.line])
             IN  IF incl = <<>> THEN ghutPc' = "fail"
                 ELSE ghutPc' = "enter" /\ ghutFile' = incl
       /\ (/\ mainPc = "oracle"
           /\ ghutPc = "enter"
           /\ ghutFile \notin DOMAIN g_HierarchicalUpdateTimes
           /\ (ghutFile \notin DOMAIN files \/ ~files[ghutFile].canOpen))
          => ghutPc' = "fail"
       /\ (mainPc = "oracle" /\ ghutPc = "fail")
          => /\ \A i \in DOMAIN callStack :
                   callStack[i].file \notin DOMAIN g_HierarchicalUpdateTimes
             /\ mainPc' = "exit"
             /\ exitCode' = 1
             /\ NoWorkerStarted /\ NoWorkerStarted'
             /\ UNCHANGED <<g_HierarchicalUpdateTimes, g_TaskData, outFiles>>]_vars

\* main has ended with 1 in the second line: the first source resolved its
\* include in the second include directory and is memoized, the second
\* source is still on the call stack
C32_Witness ==
    /\ mainPc = "exit"
    /\ exitCode = 1
    /\ lineIndex = 2
    /\ g_Options.includeDirs = <<"inc", "a">>
    /\ HdrIC \notin DOMAIN files
    /\ DOMAIN g_HierarchicalUpdateTimes = {SrcB, HdrAC}
    /\ callStack # <<>>
    /\ callStack[Len(callStack)].file = SrcA
    /\ NoWorkerStarted

\* C33: a pool whose terminate flag is clear comes to a state in which every
\* worker has returned, unless the flag is set on the way; when every worker
\* has returned with the flag clear, the queue is empty and the tasks counted
\* as processed and as failed are the planned tasks, each counted once.
C33_PoolDrain ==
    /\ [](((mainPc = "join") /\ AllReturned /\ ~g_Terminate) =>
            /\ g_TaskData = <<>>
            /\ g_ProcessedTaskCount + g_FailedTaskCount = g_OriginalTaskCount)
    /\ (mainPc = "join" /\ ~g_Terminate) ~> (g_Terminate \/ AllReturned)

\* two workers have returned with the flag clear after a task was put back in
\* the queue, and every planned task succeeded in the end
C33_Witness ==
    /\ mainPc = "join"
    /\ threadsNum = 2
    /\ AllReturned
    /\ ~g_Terminate
    /\ requeues >= 1
    /\ g_TaskData = <<>>
    /\ g_ProcessedTaskCount = g_OriginalTaskCount

\* the workers that hold a task: from the pop to the count of its outcome
InFlight == {w \in ThreadIds : wpc[w] \in {"running", "convert", "update", "count"}}

\* C34: once the pool is started, the tasks in the queue, the tasks the
\* workers hold, the processed counter and the failed counter add up to the
\* number of planned tasks; the step that puts a task back in the queue takes
\* it from the worker and leaves the counters, and no step lowers a counter.
C34_TaskConservation ==
    /\ [](~NoWorkerStarted =>
            Len(g_TaskData) + Cardinality(InFlight) + g_ProcessedTaskCount + g_FailedTaskCount
                = g_OriginalTaskCount)
    /\ [][/\ g_ProcessedTaskCount' >= g_ProcessedTaskCount
          /\ g_FailedTaskCount' >= g_FailedTaskCount
          /\ \A w \in ThreadIds :
                (mainPc = "join" /\ wpc[w] = "update" /\ ~isSucceeded[w] /\ willRetry[w]
                    /\ wpc'[w] # wpc[w])
                => /\ Len(g_TaskData') = Len(g_TaskData) + 1
                   /\ g_TaskData'[Len(g_TaskData')] = taskData[w]
                   /\ InFlight' = InFlight \ {w}
                   /\ UNCHANGED <<g_ProcessedTaskCount, g_FailedTaskCount>>]_vars

\* with two workers: a task is back in the queue after a retry while the
\* other task is held by a worker
C34_Witness ==
    /\ mainPc = "join"
    /\ threadsNum = 2
    /\ requeues >= 1
    /\ Len(g_TaskData) = 1
    /\ Cardinality(InFlight) = 1
    /\ g_OriginalTaskCount = 2

\* how often a task is in a sequence of tasks
CountIn(tasks, task) == Cardinality({i \in DOMAIN tasks : tasks[i] = task})

\* C35: of every planned task there are, in the queue and with the workers
\* together, at most as many as were planned; a worker gets a task only in
\* the step that takes the back element from the queue, one worker in a step,
\* and a worker that finds the queue empty returns without a task.
C35_ExclusivePop ==
    /\ [](~NoWorkerStarted =>
            \A task \in Range(firstRun.tasks) :
                CountIn(g_TaskData, task)
                    + Cardinality({w \in InFlight : taskData[w] = task})
                    <= CountIn(firstRun.tasks, task))
    /\ [][\A w \in ThreadIds :
            /\ taskData'[w] # taskData[w] =>
                  /\ wpc[w] = "lock"
                  /\ g_TaskData # <<>>
                  /\ taskData'[w] = g_TaskData[Len(g_TaskData)]
                  /\ g_TaskData' = SubSeq(g_TaskData, 1, Len(g_TaskData) - 1)
                  /\ \A v \in ThreadIds \ {w} : taskData'[v] = taskData[v]
            /\ (wpc[w] = "lock" /\ wpc'[w] # "lock") =>
                  IF g_TaskData = <<>>
                  THEN wpc'[w] = "returned" /\ UNCHANGED <<taskData, g_TaskData>>
                  ELSE /\ w \in InFlight'
                       /\ Len(g_TaskData') = Len(g_TaskData) - 1]_vars

\* two workers hold the two tasks of a config file that has the same line
\* twice, and the queue is empty
C35_Witness ==
    /\ mainPc = "join"
    /\ config = ConfigRepeatedLine
    /\ g_TaskData = <<>>
    /\ InFlight = {1, 2}
    /\ taskData[1] = taskData[2]

\* main reads a line that is the given directive
ReadsDirective(directive) ==
    /\ mainPc = "getline"
    /\ lineIndex < Len(config)
    /\ ~IsSkipped(TrimConfigLine(config[lineIndex + 1]))
    /\ DirectiveOf(TrimConfigLine(config[lineIndex + 1])) = directive
    /\ lineIndex' = lineIndex + 1

\* C36: the stack of blocks is never empty, and under a top that is true
\* every entry is true; an "#endif" at depth 1 leaves the stack as it is and
\* any other takes the top off; an "#else" inverts the top when the depth is
\* 2 or more and the entry below the top is true, and leaves the stack as it
\* is otherwise, so that after an "#else" in an inactive parent block the top
\* is false.
C36_BlockStack ==
    /\ [](/\ Len(blocks) >= 1
          /\ blocks[Len(blocks)] => \A k \in DOMAIN blocks : blocks[k])
    /\ [][/\ ReadsDirective("endif") =>
                blocks' = IF Len(blocks) = 1 THEN blocks
                          ELSE SubSeq(blocks, 1, Len(blocks) - 1)
          /\ ReadsDirective("else") =>
                /\ blocks' = IF Len(blocks) >= 2 /\ blocks[Len(blocks) - 1]
                             THEN [blocks EXCEPT ![Len(blocks)] = ~blocks[Len(blocks)]]
                             ELSE blocks
                /\ (Len(blocks) >= 2 /\ ~blocks[Len(blocks) - 1]) => ~blocks'[Len(blocks')]
                /\ mainPc' = "getline"]_vars

\* a sequence that is not balanced: an "#endif" at depth 1, then an "#else"
\* in a block whose parent is inactive
C36_Witness ==
    /\ SubSeq(config, 1, 4) = <<DirEndif, DirIf0, DirIf1, DirElse>>
    /\ lineIndex = 4
    /\ mainPc = "getline"
    /\ blocks = <<TRUE, FALSE, FALSE>>

\* the stack an FxcIncluder starts with
InitialIncludeDirs == <<sourceFile[1]>> \o g_Options.includeDirs

\* C37: the stack of an FxcIncluder is the stack it started with, then the
\* parent directory of every file whose data is out, outermost first; an Open
\* that returns S_OK has added the parent of the file it opened and nothing
\* else, an Open that fails leaves the stack as it is, a Close with data
\* takes off one entry and a Close without data none.
C37_IncludeStack ==
    /\ [](sourceFile # <<>> =>
            /\ Len(includeDirs) >= Len(InitialIncludeDirs)
            /\ includeDirs = InitialIncludeDirs \o [i \in DOMAIN openData |-> openData[i][1]]
            /\ openData = <<>> => includeDirs = InitialIncludeDirs)
    /\ [][(sourceFile # <<>> /\ callLog' # callLog) =>
            /\ Len(openData') > Len(openData) =>
                  /\ hresult' = "S_OK"
                  /\ includeDirs' = Append(includeDirs, openData'[Len(openData')][1])
            /\ hresult' = "E_FAIL" => UNCHANGED <<includeDirs, openData>>
            /\ Len(openData') < Len(openData) =>
                  includeDirs' = SubSeq(includeDirs, 1, Len(includeDirs) - 1)
            /\ Len(openData') = Len(openData) => includeDirs' = includeDirs]_vars

\* two nested files were opened and closed, innermost first, after an Open
\* that failed: the stack is the stack of the constructor
C37_Witness ==
    /\ sourceFile = SrcB
    /\ callLog = <<<<"Open", "E_FAIL">>, <<"Open", "S_OK">>, <<"Open", "S_OK">>,
                 <<"Close", "data">>, <<"Close", "data">>>>
    /\ openData = <<>>
    /\ includeDirs = <<"b", "inc", "a">>

\* the value of -O on a config line, <<>> when the line has none
LevelGiven(line) ==
    LET tokens == TokenizeConfigLine(line)
    IN  IF \E i \in DOMAIN tokens : tokens[i] = <<"-O">>
        THEN tokens[(CHOOSE i \in DOMAIN tokens : tokens[i] = <<"-O">>) + 1]
        ELSE <<>>

\* the config line a task was planned from
LineOf(task) ==
    CHOOSE i \in DOMAIN config : Flat(TokenizeConfigLine(config[i])[1]) = task.source

\* the tasks in the queue and in the hands of the workers
TasksAtHand == Range(g_TaskData) \cup {taskData[w] : w \in InFlight}

\* C38: the optimization level of every task is in 0..3, and it is the value
\* of -O on its config line when the line has one and the global level when
\* it has none, at most 3.
C38_ResolvedLevel ==
    \A task \in TasksAtHand :
        LET given == LevelGiven(config[LineOf(task)])
        IN  /\ task.optimizationLevel \in 0 .. 3
            /\ task.optimizationLevel =
                   Min(IF given # <<>> THEN ToInteger(given) ELSE g_Options.optimizationLevel, 3)

\* the ComPtrs that hold an object
Holders(o) == {p \in constructed : m_ComPtr[p] = o}

\* C39: no AddRef and no Release was called on an object whose count had
\* reached zero, and the count of every object, less the reference of its
\* maker, is the number of ComPtrs that hold it.
C39_ReferenceCount ==
    /\ ~misused
    /\ \A o \in Objects :
          refCount[o] - (IF o \in rawHeld THEN 1 ELSE 0) = Cardinality(Holders(o))


====
